---- MODULE Spec2Model ----
(***************************************************************************)
(* Summary generation and caching pipeline of NewsRag-api.                 *)
(*                                                                         *)
(*   utils/summarization/cache_manager.py          CacheManager            *)
(*   utils/summarization/langchain/forex_summarizer.py                     *)
(*                                                  LangChainForexSummarizer*)
(*   utils/summarization/langchain/enhanced_forex_summarizer.py            *)
(*                                                  EnhancedForexSummarizer *)
(*                                                                         *)
(* Modelling decisions:                                                    *)
(*  - time.time() is a non-decreasing integer clock `now`; two consecutive *)
(*    readings may be equal (coarse clocks), CacheManager.set reads it     *)
(*    twice.                                                               *)
(*  - A cache key is hashlib.md5 of "query:id1-id2-..." over the sorted    *)
(*    ids; md5 and the '-' join are taken to be injective, so the key is   *)
(*    the pair (query, sorted id list).  Article ids are integers standing *)
(*    for id strings, ordered as the strings are.                          *)
(*  - asyncio runs one coroutine at a time; the only suspension point of   *)
(*    generate_summary is `await self.chain.ainvoke`.  One action is the   *)
(*    code between two suspension points.                                  *)
(*  - The LLM chain is taken to be initialised (_ensure_initialized        *)
(*    succeeds); an LLM invocation either returns a completion text or     *)
(*    raises.  A raise anywhere in the base class's generate_summary after *)
(*    the prompt is built has the effect of LLMRaises.                     *)
(*  - _parse_structured_response builds every currency pair entry with a   *)
(*    numeric rank and outlooks and a string rationale, so the try block   *)
(*    of _merge_chunk_results does not raise on its results.  Its except   *)
(*    branch is taken only when merge_raises is set, which no              *)
(*    specification but SpecMergeFault does: there the failure is          *)
(*    injected, standing for an exception out of a helper or the runtime.  *)
(*  - Specifications: SpecCache drives CacheManager alone; SpecCall is one *)
(*    generate_summary call on any article list; SpecRepeat is one request *)
(*    issued again and again; Spec is calls following one another;         *)
(*    SpecConc is two callers with one request each, interleaved at their  *)
(*    awaits; SpecLoop is CacheManager statement by statement for two      *)
(*    callers; SpecParse applies the parser, the field repair of           *)
(*    generate_summary and the merge to completions; SpecResults adds the  *)
(*    empty-state returns to it; SpecSentiment applies the two sentiment   *)
(*    categorisations to lists of scores; SpecPairs applies the currency   *)
(*    pair merge to chunk results; SpecCancel is SpecCall with the task    *)
(*    cancelled at its await; SpecMergeFault is SpecRepeat with the merge  *)
(*    failing or not; SpecPrompt applies _format_articles_for_prompt.      *)
(*  - Python floats are IEEE 754 binary64.  The content budget of the      *)
(*    prompt is computed on 53-bit significands with round to nearest,     *)
(*    ties to even; a content is its length.                               *)
(*  - A completion is the record of what the parser's regular expressions  *)
(*    find in it (summary section, pair matches, mentioned pairs, risk     *)
(*    fields, guidelines) and whether parsing raises; texts are shorter    *)
(*    than the 500 characters of the text[:500] cuts, and ranks are        *)
(*    integers.  The averages of the merge are exact rationals.            *)
(***************************************************************************)
EXTENDS Integers, Sequences, FiniteSets, TLC

VARIABLES
    cache,          \* CacheManager.cache: key -> [value, expiry]
    access_times,   \* CacheManager.access_times: key -> last access time
    access_order,   \* insertion order of the access_times dict (min() iterates in it)
    max_size,       \* CacheManager.max_size
    hits,           \* CacheManager.hits
    misses,         \* CacheManager.misses
    now,            \* the clock read by time.time()
    max_chunk_size, \* int(os.getenv("MAX_CHUNK_SIZE", "50"))
    merge_raises,   \* whether the try block of _merge_chunk_results raises
    pc,             \* per request: "idle", "llm" (suspended in ainvoke), "done",
                    \* or the statement of a CacheManager method just executed
    req,            \* per request: the locals of its generate_summary call
    out,            \* per request: what the call returned or raised
    llm_calls,      \* per request: chain.ainvoke invocations made by the call
    last,           \* history: which operation the last step was, and the branch it took
    lru_step        \* history: progress through "set A, set B, get A, set C" (0..4)

cacheVars == <<cache, access_times, access_order, max_size, hits, misses>>
reqVars == <<max_chunk_size, merge_raises, pc, req, out, llm_calls>>
vars == <<cache, access_times, access_order, max_size, hits, misses, now,
          max_chunk_size, merge_raises, pc, req, out, llm_calls, last, lru_step>>

----------------------------------------------------------------------------
(* Bounds of the model *)

MaxTime == 2          \* the clock runs 0..MaxTime
MaxCacheSize == 2     \* max_size is drawn from 1..MaxCacheSize
DefaultTTL == 1       \* default_ttl (SUMMARY_CACHE_TTL), scaled down
MaxGets == 2          \* cap on hits + misses
MaxArticles == 3      \* articles of one request
MaxChunkSize == 2     \* max_chunk_size is drawn from 1..MaxChunkSize

Queries == {"q1", "q2"}

----------------------------------------------------------------------------
(* Values *)

None == [kind |-> "None"]

\* An article record as the summarizer reads it: id, payload.publishDatePst, score.
Article(i) == [id |-> i, date |-> i % 2, score |-> IF i = 3 THEN 1 ELSE 0]

ArticlePool == {Article(i) : i \in 1..MaxArticles}

RECURSIVE InsertAsc(_, _)
InsertAsc(x, s) ==
    IF s = <<>> THEN <<x>>
    ELSE IF x < Head(s) THEN <<x>> \o s
    ELSE <<Head(s)>> \o InsertAsc(x, Tail(s))

\* sorted(list) on ids
RECURSIVE SortedIds(_)
SortedIds(s) ==
    IF s = <<>> THEN <<>>
    ELSE InsertAsc(s[Len(s)], SortedIds(SubSeq(s, 1, Len(s) - 1)))

GetCacheKeyUnsorted(articles, query) ==
    [query |-> query, ids |-> [i \in 1..Len(articles) |-> articles[i].id]]

\* _get_cache_key: md5(f"{query}:{'-'.join(sorted(ids))}")
GetCacheKey(articles, query) ==
    [query |-> query,
     ids |-> SortedIds([i \in 1..Len(articles) |-> articles[i].id])]

NoKey == [query |-> "", ids |-> <<>>]

KeyPool == {GetCacheKey(<<Article(i)>>, "q1") : i \in {1, 2, 3}}

----------------------------------------------------------------------------
(* CacheManager (cache_manager.py).  The dictionaries and counters of one  *)
(* CacheManager are handled as a record cs so that the summarizer's steps   *)
(* can run several cache operations in one atomic step.                    *)

Remove(f, k) == [x \in (DOMAIN f) \ {k} |-> f[x]]

Put(f, k, v) == [x \in (DOMAIN f) \cup {k} |-> IF x = k THEN v ELSE f[x]]

SelectSeqNot(s, k) == SelectSeq(s, LAMBDA x : x # k)

CM == [cache |-> cache, access_times |-> access_times,
       access_order |-> access_order, hits |-> hits, misses |-> misses]

\* __init__
EmptyCM == [cache |-> <<>>, access_times |-> <<>>, access_order |-> <<>>,
            hits |-> 0, misses |-> 0]

\* the optional ttl argument of set: <<>> is None, <<n>> is n
TTLOf(ttl) == IF ttl = <<>> THEN DefaultTTL ELSE ttl[1]

\* delete
CacheDelete(cs, key) ==
    [cs EXCEPT !.cache = Remove(@, key),
               !.access_times = Remove(@, key),
               !.access_order = SelectSeqNot(@, key)]

\* min(self.access_times.keys(), key=...): the first key, in dictionary
\* order, whose access time is minimal
LruKey(cs) ==
    LET o == cs.access_order
        at == cs.access_times
        i == CHOOSE i \in 1..Len(o) :
                /\ \A j \in 1..Len(o) : at[o[i]] <= at[o[j]]
                /\ \A j \in 1..(i - 1) : at[o[j]] > at[o[i]]
    IN o[i]

MruKey(cs) ==
    LET o == cs.access_order
        at == cs.access_times
        i == CHOOSE i \in 1..Len(o) :
                /\ \A j \in 1..Len(o) : at[o[i]] >= at[o[j]]
                /\ \A j \in 1..(i - 1) : at[o[j]] < at[o[i]]
    IN o[i]

CacheEvictMru(cs) ==
    IF cs.access_order = <<>> THEN cs ELSE CacheDelete(cs, MruKey(cs))

\* _evict
CacheEvict(cs) ==
    IF cs.access_order = <<>> THEN cs ELSE CacheDelete(cs, LruKey(cs))

\* access_times[key] = t
Touch(cs, key, t) ==
    [cs EXCEPT !.access_times = Put(@, key, t),
               !.access_order = IF key \in DOMAIN cs.access_times
                                THEN @ ELSE Append(@, key)]

CacheGetKeepExpired(cs, key, t) ==
    IF key \notin DOMAIN cs.cache
    THEN [cs |-> [cs EXCEPT !.misses = @ + 1], ret |-> None]
    ELSE IF t > cs.cache[key].expiry
    THEN [cs |-> [cs EXCEPT !.misses = @ + 1], ret |-> None]
    ELSE [cs |-> [Touch(cs, key, t) EXCEPT !.hits = @ + 1],
          ret |-> cs.cache[key].value]

\* get; t is the reading of time.time()
CacheGet(cs, key, t) ==
    IF key \notin DOMAIN cs.cache
    THEN [cs |-> [cs EXCEPT !.misses = @ + 1], ret |-> None]
    ELSE IF t > cs.cache[key].expiry
    THEN [cs |-> [CacheDelete(cs, key) EXCEPT !.misses = @ + 1], ret |-> None]
    ELSE [cs |-> [Touch(cs, key, t) EXCEPT !.hits = @ + 1],
          ret |-> cs.cache[key].value]

CacheSetNoEvict(cs, key, value, ttl, t1, t2, maxsize) ==
    Touch([cs EXCEPT !.cache = Put(@, key, [value |-> value, expiry |-> t1 + TTLOf(ttl)])],
          key, t2)

\* a set that first drops every entry whose TTL has elapsed
CacheSetPurgeExpired(cs, key, value, ttl, t1, t2, maxsize) ==
    LET expired == {k \in DOMAIN cs.cache : t1 > cs.cache[k].expiry}
        c0 == [cs EXCEPT !.cache = [k \in (DOMAIN cs.cache) \ expired |-> cs.cache[k]],
                         !.access_times = [k \in (DOMAIN cs.access_times) \ expired
                                             |-> cs.access_times[k]],
                         !.access_order = SelectSeq(@, LAMBDA k : k \notin expired)]
        c1 == IF Cardinality(DOMAIN c0.cache) >= maxsize /\ key \notin DOMAIN c0.cache
              THEN CacheEvict(c0) ELSE c0
    IN Touch([c1 EXCEPT !.cache = Put(@, key, [value |-> value, expiry |-> t1 + TTLOf(ttl)])],
             key, t2)

\* a set that leaves a key already present as it is
CacheSetKeepFirst(cs, key, value, ttl, t1, t2, maxsize) ==
    IF key \in DOMAIN cs.cache
    THEN cs
    ELSE LET c1 == IF Cardinality(DOMAIN cs.cache) >= maxsize THEN CacheEvict(cs) ELSE cs
         IN Touch([c1 EXCEPT !.cache = Put(@, key, [value |-> value,
                                                    expiry |-> t1 + TTLOf(ttl)])],
                  key, t2)

\* set; t1 and t2 are its two readings of time.time()
CacheSet(cs, key, value, ttl, t1, t2, maxsize) ==
    LET c1 == IF Cardinality(DOMAIN cs.cache) >= maxsize /\ key \notin DOMAIN cs.cache
              THEN CacheEvict(cs) ELSE cs
    IN Touch([c1 EXCEPT !.cache = Put(@, key, [value |-> value, expiry |-> t1 + TTLOf(ttl)])],
             key, t2)

\* a clear that also resets the counters
CacheClearResetStats(cs) ==
    [cs EXCEPT !.cache = <<>>, !.access_times = <<>>, !.access_order = <<>>,
               !.hits = 0, !.misses = 0]

\* clear
CacheClear(cs) ==
    [cs EXCEPT !.cache = <<>>, !.access_times = <<>>, !.access_order = <<>>]

\* get_stats()["size"]
StatsSize(cs) == Cardinality(DOMAIN cs.cache)

SetCM(cs) ==
    /\ cache' = cs.cache
    /\ access_times' = cs.access_times
    /\ access_order' = cs.access_order
    /\ hits' = cs.hits
    /\ misses' = cs.misses

----------------------------------------------------------------------------
(* Direct use of one CacheManager: any sequence of get, set, delete and    *)
(* clear, with the clock advancing in between.                             *)

Slots == {1}

NoReq == [entry |-> "none"]

\* the value a direct set stores is tagged with the clock reading, so that
\* values written at different times differ
ValueAt(t) == [kind |-> "value", n |-> t]

TTLPool == {<<>>, <<0>>}

KeyA == GetCacheKey(<<Article(1)>>, "q1")
KeyB == GetCacheKey(<<Article(2)>>, "q1")
KeyC == GetCacheKey(<<Article(3)>>, "q1")

InitCache ==
    /\ cache = <<>>
    /\ access_times = <<>>
    /\ access_order = <<>>
    /\ hits = 0
    /\ misses = 0
    /\ max_size \in 1..MaxCacheSize
    /\ now = 0
    /\ max_chunk_size = 1
    /\ merge_raises = FALSE
    /\ pc = [r \in Slots |-> "idle"]
    /\ req = [r \in Slots |-> NoReq]
    /\ out = [r \in Slots |-> None]
    /\ llm_calls = [r \in Slots |-> 0]
    /\ last = [op |-> "init", key |-> NoKey]
    /\ lru_step = 0

\* time passes; nothing in the program runs on a timer
Tick ==
    /\ now < MaxTime
    /\ now' = now + 1
    /\ last' = [op |-> "tick", key |-> NoKey]
    /\ UNCHANGED <<cacheVars, reqVars, lru_step>>

Get(key) ==
    /\ hits + misses < MaxGets
    /\ SetCM(CacheGet(CM, key, now).cs)
    /\ last' = [op |-> IF key \notin DOMAIN cache THEN "get_absent"
                        ELSE IF now > cache[key].expiry THEN "get_expired"
                        ELSE "get_hit",
                 key |-> key]
    /\ lru_step' = IF lru_step = 2 /\ key = KeyA /\ key \in DOMAIN cache
                      /\ now <= cache[key].expiry
                   THEN 3 ELSE 0
    /\ UNCHANGED <<max_size, now, reqVars>>

Set(key, ttl) ==
    \E d \in 0..1 :
        /\ now + d <= MaxTime
        /\ SetCM(CacheSet(CM, key, ValueAt(now), ttl, now, now + d, max_size))
        /\ now' = now + d
        /\ last' = [op |-> IF key \in DOMAIN cache THEN "set_present"
                            ELSE IF Cardinality(DOMAIN cache) >= max_size THEN "set_full"
                            ELSE "set_new",
                     key |-> key]
        /\ lru_step' = IF cache = <<>> /\ key = KeyA /\ max_size = 2 THEN 1
                       ELSE IF lru_step = 1 /\ key = KeyB THEN 2
                       ELSE IF lru_step = 3 /\ key = KeyC THEN 4
                       ELSE 0
        /\ UNCHANGED <<max_size, reqVars>>

Delete(key) ==
    /\ SetCM(CacheDelete(CM, key))
    /\ last' = [op |-> "delete", key |-> key]
    /\ lru_step' = 0
    /\ UNCHANGED <<max_size, now, reqVars>>

Clear ==
    /\ SetCM(CacheClear(CM))
    /\ last' = [op |-> "clear", key |-> NoKey]
    /\ lru_step' = 0
    /\ UNCHANGED <<max_size, now, reqVars>>

NextCache ==
    \/ Tick
    \/ \E key \in KeyPool : Get(key)
    \/ \E key \in KeyPool, ttl \in TTLPool : Set(key, ttl)
    \/ \E key \in KeyPool : Delete(key)
    \/ Clear

SpecCache == InitCache /\ [][NextCache]_vars

----------------------------------------------------------------------------
(* LangChainForexSummarizer and EnhancedForexSummarizer                    *)

LLMTexts == {"t1", "t2"}

Entries == {"LangChain", "Enhanced"}

\* every list of distinct articles of the pool
ArticleLists ==
    {a \in UNION {[1..n -> ArticlePool] : n \in 0..MaxArticles} :
        \A i, j \in 1..Len(a) : a[i] = a[j] => i = j}

Prefix(n) == [i \in 1..n |-> Article(i)]

Reverse(a) == [i \in 1..Len(a) |-> a[Len(a) + 1 - i]]

\* the lists used when calls follow one another: the first n articles of the
\* pool, in both orders
CallLists == UNION {{Prefix(n), Reverse(Prefix(n))} : n \in 0..MaxArticles}

\* what a raised exception leaves the caller with
Raised == [kind |-> "raised"]

\* LangChainForexSummarizer.generate_summary, no articles
EmptyResultLangChain ==
    [summary |-> "No news articles available to summarize.",
     keyPoints |-> <<>>,
     sentiment |-> [overall |-> "neutral", score |-> 50],
     impactLevel |-> "LOW",
     currencyPairRankings |-> <<>>,
     tradeManagementGuidelines |-> <<>>]

\* EnhancedForexSummarizer._empty_summary_result
EmptySummaryResult ==
    [summary |-> "Unable to generate market analysis due to processing error.",
     keyPoints |-> <<"Error processing financial news">>,
     sentiment |-> [overall |-> "neutral", score |-> 50],
     impactLevel |-> "MEDIUM",
     currencyPairRankings |-> <<>>,
     tradeManagementGuidelines |-> <<>>]

\* key of sorted(..., key=lambda x: (publishDatePst, score), reverse=True)
KeyGE(a, b) == a.date > b.date \/ (a.date = b.date /\ a.score >= b.score)

RECURSIVE InsertDesc(_, _)
InsertDesc(x, s) ==
    IF s = <<>> THEN <<x>>
    ELSE IF KeyGE(Head(s), x) THEN <<Head(s)>> \o InsertDesc(x, Tail(s))
    ELSE <<x>> \o s

\* the stable descending sort of the chunked path
RECURSIVE SortedArticles(_)
SortedArticles(s) ==
    IF s = <<>> THEN <<>>
    ELSE InsertDesc(s[Len(s)], SortedArticles(SubSeq(s, 1, Len(s) - 1)))

Min(a, b) == IF a <= b THEN a ELSE b

\* [sorted_articles[i:i+max_chunk_size] for i in range(0, len(sorted_articles), max_chunk_size)]
RECURSIVE ChunksFrom(_, _, _)
ChunksFrom(s, i, size) ==
    IF i >= Len(s) THEN <<>>
    ELSE <<SubSeq(s, i + 1, Min(i + size, Len(s)))>> \o ChunksFrom(s, i + size, size)

ChunksDropTail(s, size) ==
    LET c == ChunksFrom(s, 0, size)
    IN IF c # <<>> /\ Len(c[Len(c)]) < size THEN SubSeq(c, 1, Len(c) - 1) ELSE c

Chunks(s, size) == ChunksFrom(s, 0, size)

\* the parsed result with the fields generate_summary adds to it
ParsedResult(text, articles) ==
    [formatted_text |-> text, articleCount |-> Len(articles)]

\* chunk_result["chunk_index"] = i; chunk_result["chunk_count"] = len(chunks)
WithChunkMeta(res, i, n) ==
    [formatted_text |-> res.formatted_text, articleCount |-> res.articleCount,
     chunk_index |-> i, chunk_count |-> n]

\* sum(r.get("articleCount", 0) for r in chunk_results)
RECURSIVE SumArticleCount(_)
SumArticleCount(crs) ==
    IF crs = <<>> THEN 0
    ELSE (IF "articleCount" \in DOMAIN Head(crs) THEN Head(crs).articleCount ELSE 0)
         + SumArticleCount(Tail(crs))

MergeChunkResultsFirstCount(chunk_results, query) ==
    LET first == chunk_results[1]
    IN [formatted_text |-> first.formatted_text,
        chunk_index |-> first.chunk_index,
        chunk_count |-> first.chunk_count,
        articleCount |-> first.articleCount,
        query |-> query,
        processingDetails |->
            [chunksProcessed |-> Len(chunk_results),
             totalChunks |-> first.chunk_count,
             totalArticles |-> first.articleCount,
             chunkErrorCount |-> first.chunk_count - Len(chunk_results)]]

MergeChunkResultsLastBase(chunk_results, query) ==
    LET base == chunk_results[Len(chunk_results)]
        total_articles == SumArticleCount(chunk_results)
    IN [formatted_text |-> base.formatted_text,
        chunk_index |-> base.chunk_index,
        chunk_count |-> base.chunk_count,
        articleCount |-> total_articles,
        query |-> query,
        processingDetails |->
            [chunksProcessed |-> Len(chunk_results),
             totalChunks |-> base.chunk_count,
             totalArticles |-> total_articles,
             chunkErrorCount |-> base.chunk_count - Len(chunk_results)]]

\* _merge_chunk_results, for a non-empty list of chunk results
MergeChunkResults(chunk_results, query) ==
    LET first == chunk_results[1]
        total_articles == SumArticleCount(chunk_results)
    IN [formatted_text |-> first.formatted_text,
        chunk_index |-> first.chunk_index,
        chunk_count |-> first.chunk_count,
        articleCount |-> total_articles,
        query |-> query,
        processingDetails |->
            [chunksProcessed |-> Len(chunk_results),
             totalChunks |-> first.chunk_count,
             totalArticles |-> total_articles,
             chunkErrorCount |-> first.chunk_count - Len(chunk_results)]]

\* a merge that lets the exception of its try block out
MergeChunkResultsReraise(chunk_results, query, raises) ==
    IF raises THEN Raised ELSE MergeChunkResults(chunk_results, query)

\* _merge_chunk_results with its except branch: when the try block raises
\* the method returns chunk_results[0]
MergeChunkResultsGuarded(chunk_results, query, raises) ==
    IF raises THEN chunk_results[1] ELSE MergeChunkResults(chunk_results, query)

\* index of the chunk whose LLM call is in flight
ChunkIdx(rq) == Len(rq.chunk_results) + rq.chunk_errors + 1

\* the articles of the pass in flight
PassArticles(rq) ==
    IF rq.mode = "chunked" THEN rq.chunks[ChunkIdx(rq)] ELSE rq.articles

Init ==
    /\ cache = <<>>
    /\ access_times = <<>>
    /\ access_order = <<>>
    /\ hits = 0
    /\ misses = 0
    /\ max_size \in 1..MaxCacheSize
    /\ now = 0
    /\ max_chunk_size \in 1..MaxChunkSize
    /\ merge_raises = FALSE
    /\ pc = [r \in Slots |-> "idle"]
    /\ req = [r \in Slots |-> NoReq]
    /\ out = [r \in Slots |-> None]
    /\ llm_calls = [r \in Slots |-> 0]
    /\ last = [op |-> "init", key |-> NoKey]
    /\ lru_step = 0

\* a call's step ends with a return or a raise
Done(r, cs, rq, result, t) ==
    /\ SetCM(cs)
    /\ pc' = [pc EXCEPT ![r] = "done"]
    /\ req' = [req EXCEPT ![r] = [rq EXCEPT !.done_at = t]]
    /\ out' = [out EXCEPT ![r] = result]

\* a call's step ends suspended in `await self.chain.ainvoke(...)`
Await(r, cs, rq) ==
    /\ SetCM(cs)
    /\ pc' = [pc EXCEPT ![r] = "llm"]
    /\ req' = [req EXCEPT ![r] = rq]
    /\ out' = [out EXCEPT ![r] = None]

\* generate_summary from its entry to its first suspension or return.
\* entry "LangChain" is LangChainForexSummarizer.generate_summary called
\* directly; entry "Enhanced" is EnhancedForexSummarizer.generate_summary,
\* which calls the former with use_cache=False for each pass.
GenerateSummary(r, articles, query, use_cache, entry) ==
    /\ pc[r] # "llm"
    /\ hits + misses < MaxGets
    /\ LET key == IF use_cache THEN GetCacheKey(articles, query) ELSE NoKey
           g == CacheGet(CM, key, now)
           hit == articles # <<>> /\ use_cache /\ g.ret # None
           chunked == entry = "Enhanced" /\ Len(articles) > max_chunk_size
           mode == IF articles = <<>> THEN "empty"
                   ELSE IF hit THEN "cached"
                   ELSE IF entry = "LangChain" THEN "langchain"
                   ELSE IF chunked THEN "chunked" ELSE "single"
           rq == [entry |-> entry, articles |-> articles, query |-> query,
                  use_cache |-> use_cache,
                  cache_key |-> IF articles = <<>> THEN NoKey ELSE key,
                  mode |-> mode,
                  chunks |-> IF mode = "chunked"
                             THEN Chunks(SortedArticles(articles), max_chunk_size)
                             ELSE <<>>,
                  chunk_results |-> <<>>, chunk_errors |-> 0, done_at |-> now]
       IN IF articles = <<>>
          THEN /\ Done(r, CM, rq, IF entry = "LangChain" THEN EmptyResultLangChain
                                  ELSE EmptySummaryResult, now)
               /\ llm_calls' = [llm_calls EXCEPT ![r] = 0]
          ELSE IF hit
          THEN /\ Done(r, g.cs, rq, g.ret, now)
               /\ llm_calls' = [llm_calls EXCEPT ![r] = 0]
          ELSE /\ Await(r, IF use_cache THEN g.cs ELSE CM, rq)
               /\ llm_calls' = [llm_calls EXCEPT ![r] = 1]
    /\ last' = [op |-> "call", key |-> NoKey]
    /\ UNCHANGED <<max_size, now, max_chunk_size, merge_raises, lru_step>>

EnhancedFinishNoCache(r, rq, t2) ==
    /\ IF rq.chunk_results # <<>>
       THEN Done(r, CM, rq, MergeChunkResults(rq.chunk_results, rq.query), t2)
       ELSE Done(r, CM, rq, EmptySummaryResult, t2)
    /\ UNCHANGED llm_calls

\* an ending that stores the empty result when every chunk has failed
EnhancedFinishCacheEmpty(r, rq, t2) ==
    /\ IF rq.chunk_results # <<>>
       THEN LET merged == MergeChunkResultsGuarded(rq.chunk_results, rq.query, merge_raises)
            IN Done(r,
                    IF rq.use_cache
                    THEN CacheSet(CM, rq.cache_key, merged, <<>>, now, t2, max_size)
                    ELSE CM,
                    rq, merged, t2)
       ELSE Done(r,
                 IF rq.use_cache
                 THEN CacheSet(CM, rq.cache_key, EmptySummaryResult, <<>>, now, t2, max_size)
                 ELSE CM,
                 rq, EmptySummaryResult, t2)
    /\ UNCHANGED llm_calls

\* EnhancedForexSummarizer.generate_summary after the last chunk: merge,
\* cache, return; t2 is the second clock reading of cache.set
EnhancedFinish(r, rq, t2) ==
    /\ IF rq.chunk_results # <<>>
       THEN LET merged == MergeChunkResultsGuarded(rq.chunk_results, rq.query, merge_raises)
            IN Done(r,
                    IF rq.use_cache
                    THEN CacheSet(CM, rq.cache_key, merged, <<>>, now, t2, max_size)
                    ELSE CM,
                    rq, merged, t2)
       ELSE Done(r, CM, rq, EmptySummaryResult, t2)
    /\ UNCHANGED llm_calls

\* a next chunk that looks its own articles up in the cache first
NextChunkCached(r, rq) ==
    /\ Await(r, CacheGet(CM, GetCacheKey(rq.chunks[ChunkIdx(rq)], rq.query), now).cs, rq)
    /\ llm_calls' = [llm_calls EXCEPT ![r] = @ + 1]

\* the next chunk's super().generate_summary(...) up to its ainvoke
NextChunk(r, rq) ==
    /\ Await(r, CM, rq)
    /\ llm_calls' = [llm_calls EXCEPT ![r] = @ + 1]

\* the step that ends the pass in flight may call cache.set, which reads
\* the clock twice
SetsCache(rq) ==
    /\ rq.use_cache
    /\ \/ rq.mode = "langchain"
       \/ rq.mode = "chunked" /\ ChunkIdx(rq) = Len(rq.chunks)

\* ainvoke returns a completion: parse, complete the result, then cache
\* and return, or go on with the next chunk
LLMReturns(r, text) ==
    /\ pc[r] = "llm"
    /\ \E d \in 0..1 :
        /\ d = 1 => SetsCache(req[r])
        /\ now + d <= MaxTime
        /\ now' = now + d
        /\ LET rq == req[r]
               res == ParsedResult(text, PassArticles(rq))
           IN IF rq.mode = "langchain"
              THEN /\ Done(r,
                           IF rq.use_cache
                           THEN CacheSet(CM, rq.cache_key, res, <<>>, now, now + d, max_size)
                           ELSE CM,
                           rq, res, now + d)
                   /\ UNCHANGED llm_calls
              ELSE IF rq.mode = "single"
              THEN /\ Done(r, CM, rq, res, now + d)
                   /\ UNCHANGED llm_calls
              ELSE LET rq2 == [rq EXCEPT !.chunk_results =
                                   Append(@, WithChunkMeta(res, ChunkIdx(rq) - 1,
                                                           Len(rq.chunks)))]
                   IN IF ChunkIdx(rq) < Len(rq.chunks)
                      THEN NextChunk(r, rq2)
                      ELSE EnhancedFinish(r, rq2, now + d)
    /\ last' = [op |-> "llm_returns", key |-> NoKey]
    /\ UNCHANGED <<max_size, max_chunk_size, merge_raises, lru_step>>

LLMRaisesAbort(r) ==
    /\ pc[r] = "llm"
    /\ now' = now
    /\ LET rq == req[r]
       IN IF rq.mode = "langchain"
          THEN /\ Done(r, CM, rq, Raised, now)
               /\ UNCHANGED llm_calls
          ELSE IF rq.mode = "single"
          THEN /\ Done(r, CM, rq, EmptySummaryResult, now)
               /\ UNCHANGED llm_calls
          ELSE EnhancedFinish(r, [rq EXCEPT !.chunk_errors = @ + 1], now)
    /\ last' = [op |-> "llm_raises", key |-> NoKey]
    /\ UNCHANGED <<max_size, max_chunk_size, merge_raises, lru_step>>

\* a failure of the first invocation answered by a second invocation
LLMRaisesRetry(r) ==
    /\ pc[r] = "llm"
    /\ now' = now
    /\ IF llm_calls[r] = 1
       THEN /\ Await(r, CM, req[r])
            /\ llm_calls' = [llm_calls EXCEPT ![r] = @ + 1]
       ELSE /\ Done(r, CM, req[r], Raised, now)
            /\ UNCHANGED llm_calls
    /\ last' = [op |-> "llm_raises", key |-> NoKey]
    /\ UNCHANGED <<max_size, max_chunk_size, merge_raises, lru_step>>

\* ainvoke raises
LLMRaises(r) ==
    /\ pc[r] = "llm"
    /\ \E d \in 0..1 :
        /\ d = 1 => (SetsCache(req[r]) /\ req[r].chunk_results # <<>>)
        /\ now + d <= MaxTime
        /\ now' = now + d
        /\ LET rq == req[r]
           IN IF rq.mode = "langchain"
              THEN /\ Done(r, CM, rq, Raised, now + d)
                   /\ UNCHANGED llm_calls
              ELSE IF rq.mode = "single"
              THEN /\ Done(r, CM, rq, EmptySummaryResult, now + d)
                   /\ UNCHANGED llm_calls
              ELSE LET rq2 == [rq EXCEPT !.chunk_errors = @ + 1]
                   IN IF ChunkIdx(rq) < Len(rq.chunks)
                      THEN NextChunk(r, rq2)
                      ELSE EnhancedFinish(r, rq2, now + d)
    /\ last' = [op |-> "llm_raises", key |-> NoKey]
    /\ UNCHANGED <<max_size, max_chunk_size, merge_raises, lru_step>>

\* calls following one another
Next ==
    \/ Tick
    \/ \E r \in Slots, articles \in CallLists, query \in {"q1"},
          use_cache \in BOOLEAN, entry \in Entries :
            GenerateSummary(r, articles, query, use_cache, entry)
    \/ \E r \in Slots, text \in LLMTexts : LLMReturns(r, text)
    \/ \E r \in Slots : LLMRaises(r)

Spec == Init /\ [][Next]_vars

\* one call, on any list of distinct articles
FirstCall ==
    \E r \in Slots, articles \in ArticleLists, query \in Queries,
       use_cache \in BOOLEAN, entry \in Entries :
        /\ pc[r] = "idle"
        /\ GenerateSummary(r, articles, query, use_cache, entry)

NextCall ==
    \/ Tick
    \/ FirstCall
    \/ \E r \in Slots, text \in LLMTexts : LLMReturns(r, text)
    \/ \E r \in Slots : LLMRaises(r)

SpecCall == Init /\ [][NextCall]_vars

\* a call from idle
StartCall ==
    \E r \in Slots, articles \in CallLists, query \in Queries,
       use_cache \in BOOLEAN, entry \in Entries :
        /\ pc[r] = "idle"
        /\ GenerateSummary(r, articles, query, use_cache, entry)

\* the same caller asks again for the same query and the same articles, in
\* the same or the reverse order
RepeatCall ==
    \E r \in Slots :
        /\ pc[r] = "done"
        /\ \E articles \in {req[r].articles, Reverse(req[r].articles)} :
               GenerateSummary(r, articles, req[r].query, req[r].use_cache, req[r].entry)

\* one request, repeated
NextRepeat ==
    \/ Tick
    \/ StartCall
    \/ RepeatCall
    \/ \E r \in Slots, text \in LLMTexts : LLMReturns(r, text)
    \/ \E r \in Slots : LLMRaises(r)

SpecRepeat == Init /\ [][NextRepeat]_vars

\* what a cancelled task leaves its awaiter with
Cancelled == [kind |-> "cancelled"]

\* a cancellation handled as the failures of the LLM call are
CancelCaught(r) ==
    /\ pc[r] = "llm"
    /\ now' = now
    /\ LET rq == req[r]
       IN IF rq.mode = "langchain"
          THEN /\ Done(r, CM, rq, Raised, now)
               /\ UNCHANGED llm_calls
          ELSE IF rq.mode = "single"
          THEN /\ Done(r, CM, rq, EmptySummaryResult, now)
               /\ UNCHANGED llm_calls
          ELSE LET rq2 == [rq EXCEPT !.chunk_errors = @ + 1]
               IN IF ChunkIdx(rq) < Len(rq.chunks)
                  THEN NextChunk(r, rq2)
                  ELSE EnhancedFinish(r, rq2, now)
    /\ last' = [op |-> "cancel", key |-> NoKey]
    /\ UNCHANGED <<max_size, max_chunk_size, merge_raises, lru_step>>

\* the task running generate_summary is cancelled while it is suspended in
\* ainvoke: asyncio.CancelledError is raised at the await.  It is a
\* BaseException, so neither `except Exception` of the base class nor
\* those of EnhancedForexSummarizer catch it, and the call is unwound.
Cancel(r) ==
    /\ pc[r] = "llm"
    /\ pc' = [pc EXCEPT ![r] = "cancelled"]
    /\ out' = [out EXCEPT ![r] = Cancelled]
    /\ last' = [op |-> "cancel", key |-> NoKey]
    /\ UNCHANGED <<cacheVars, now, max_chunk_size, merge_raises, req, llm_calls, lru_step>>

NextCancel ==
    \/ NextCall
    \/ \E r \in Slots : Cancel(r)

\* one call, which its caller may cancel
SpecCancel == Init /\ [][NextCancel]_vars

\* one request, repeated, in a run where the try block of _merge_chunk_results may raise.
\* Nothing the parser returns makes it raise, so the failure is injected:
\* it stands for an exception out of a helper or of the runtime.
InitMergeFault ==
    /\ cache = <<>>
    /\ access_times = <<>>
    /\ access_order = <<>>
    /\ hits = 0
    /\ misses = 0
    /\ max_size \in 1..MaxCacheSize
    /\ now = 0
    /\ max_chunk_size \in 1..MaxChunkSize
    /\ merge_raises \in BOOLEAN
    /\ pc = [r \in Slots |-> "idle"]
    /\ req = [r \in Slots |-> NoReq]
    /\ out = [r \in Slots |-> None]
    /\ llm_calls = [r \in Slots |-> 0]
    /\ last = [op |-> "init", key |-> NoKey]
    /\ lru_step = 0

SpecMergeFault == InitMergeFault /\ [][NextRepeat]_vars

----------------------------------------------------------------------------
(* The response parser (forex_summarizer.py, _parse_structured_response,   *)
(* _ensure_complete_result, _create_fallback_result) and the completion    *)
(* of its result in generate_summary.  A completion text is represented by *)
(* what the parser's string operations and regular expressions find in it: *)
(*   nonempty       bool(text)                                             *)
(*   has_break      '\n\n' in text                                         *)
(*   head           text.split('\n\n')[0], which is text[:500] as well     *)
(*                  when there is no break (texts of at most 500 chars)    *)
(*   summary_match  <<>> when no Executive Summary pattern matches, else   *)
(*                  <<group(1).strip()>>                                   *)
(*   pairs          the matches of the pair pattern in the rankings        *)
(*                  section, in order                                      *)
(*   mentions       the common pairs the text mentions, with the slash     *)
(*                  ("EUR/USD") or without it ("EURUSD")                   *)
(*   risk           the three stripped risk extractions ("" when absent)   *)
(*   guidelines     the non-blank guideline lines                          *)
(*   raises         some step of the extraction raises                     *)

MaxPairs == 2         \* pair entries matched in one completion

\* str.strip() on the texts drawn here
Strip(s) == IF s = " " THEN "" ELSE s

HeadPool == {"", " ", "Lead paragraph of the text."}

SummaryPool == {"", "ok", "Markets look bullish today.",
                "High risk, bearish session ahead.", "Low volume session."}

\* any(word in summary_lower for word in ["bullish", "positive", "uptrend", "gains"])
HasBullishWord(s) == s = "Markets look bullish today."

\* any(word in summary_lower for word in ["bearish", "negative", "downtrend", "losses"])
HasBearishWord(s) == s = "High risk, bearish session ahead."

\* "high" in summary.lower()
HasHigh(s) == s = "High risk, bearish session ahead."

\* "low" in summary.lower()
HasLow(s) == s = "Low volume session."

\* [s.strip() for s in re.split(r'(?<=[.!?])\s+', summary) if len(s.strip()) > 10][:3]
\* every text drawn here is one sentence
KeyPointsOf(s) == IF s \in {"", " ", "ok"} THEN <<>> ELSE <<s>>

\* common_pairs of _parse_structured_response and _create_fallback_result
CommonPairs ==
    <<"EUR/USD", "USD/JPY", "GBP/USD", "AUD/USD", "USD/CHF", "USD/CAD", "NZD/USD">>

\* common_pairs of generate_summary
CommonPairsSummary ==
    <<"EUR/USD", "USD/JPY", "GBP/USD", "USD/CHF", "AUD/USD", "USD/CAD", "NZD/USD">>

\* one match of the pair pattern: name, rank, the optional maximum, and
\* what the outlook and rationale patterns find in its content
PairMatch(pair, rank, max_rank, fundamental, sentiment, rationale, content) ==
    [pair |-> pair, rank |-> rank, max_rank |-> max_rank,
     fundamental |-> fundamental, sentiment |-> sentiment,
     rationale |-> rationale, content |-> content]

PairPool ==
    {PairMatch("EUR/USD", 8, <<10>>, <<60>>, <<70>>, "R1", "C1"),
     PairMatch("EUR/USD", 3, <<5>>, <<>>, <<30>>, "", "C2"),
     PairMatch("USD/JPY", 15, <<10>>, <<150>>, <<250>>, "", ""),
     PairMatch("USD/JPY", 5, <<>>, <<40>>, <<>>, "R4", "C4"),
     PairMatch("EUR/USD", 0, <<10>>, <<0>>, <<69>>, "R5", "")}

PairLists == UNION {[1..n -> PairPool] : n \in 0..MaxPairs}

MentionPool ==
    {[slash |-> {}, plain |-> {}],
     [slash |-> {"EUR/USD"}, plain |-> {}],
     [slash |-> {}, plain |-> {"USD/JPY"}],
     [slash |-> {"EUR/USD", "USD/JPY", "GBP/USD", "AUD/USD"}, plain |-> {}]}

RiskPool ==
    {[primaryRisk |-> "", correlationRisk |-> "", volatilityPotential |-> ""],
     [primaryRisk |-> "P", correlationRisk |-> "", volatilityPotential |-> ""],
     [primaryRisk |-> "P", correlationRisk |-> "C", volatilityPotential |-> "V"]}

\* the empty string
EmptyCompletion(raises) ==
    [nonempty |-> FALSE, has_break |-> FALSE, head |-> "", summary_match |-> <<>>,
     pairs |-> <<>>, mentions |-> [slash |-> {}, plain |-> {}],
     risk |-> [primaryRisk |-> "", correlationRisk |-> "", volatilityPotential |-> ""],
     guidelines |-> <<>>, raises |-> raises]

Completions ==
    {EmptyCompletion(b) : b \in BOOLEAN}
    \cup
    {c \in [nonempty : {TRUE}, has_break : BOOLEAN, head : HeadPool,
            summary_match : {<<>>} \cup {<<s>> : s \in SummaryPool},
            pairs : PairLists, mentions : MentionPool, risk : RiskPool,
            guidelines : {<<>>, <<"G1">>}, raises : BOOLEAN] :
        /\ ~c.has_break => c.head # ""
        /\ \A i \in 1..Len(c.pairs) : c.pairs[i].pair \in c.mentions.slash}

\* the entry appended for one match (lines 730-801)
ParsePair(m) ==
    [pair |-> m.pair,
     rank |-> m.rank,
     maxRank |-> IF m.max_rank = <<>> THEN 10 ELSE m.max_rank[1],
     fundamentalOutlook |-> IF m.fundamental = <<>> THEN 50 ELSE m.fundamental[1],
     sentimentOutlook |-> IF m.sentiment = <<>> THEN 50 ELSE m.sentiment[1],
     rationale |-> IF m.rationale # "" THEN m.rationale
                   ELSE IF m.content # "" THEN m.content
                   ELSE "Analysis for " \o m.pair]

BasicPair(pair, rationale) ==
    [pair |-> pair, rank |-> 5, maxRank |-> 10, fundamentalOutlook |-> 50,
     sentimentOutlook |-> 50, rationale |-> rationale]

\* for pair in common_pairs: if mentioned: append; if len >= limit: break
RECURSIVE MentionedFrom(_, _, _, _, _)
MentionedFrom(common, i, mentioned, rationale, limit) ==
    IF i > Len(common) \/ limit = 0 THEN <<>>
    ELSE IF common[i] \in mentioned
    THEN <<BasicPair(common[i], rationale)>>
         \o MentionedFrom(common, i + 1, mentioned, rationale, limit - 1)
    ELSE MentionedFrom(common, i + 1, mentioned, rationale, limit)

RECURSIVE SumSentimentOutlook(_)
SumSentimentOutlook(pairs) ==
    IF pairs = <<>> THEN 0
    ELSE Head(pairs).sentimentOutlook + SumSentimentOutlook(Tail(pairs))

SentimentCategoryStrict(score) ==
    IF score > 70 THEN "bullish" ELSE IF score < 30 THEN "bearish" ELSE "neutral"

\* if score >= 70: bullish; elif score <= 30: bearish (lines 911-914)
SentimentCategory(score) ==
    IF score >= 70 THEN "bullish" ELSE IF score <= 30 THEN "bearish" ELSE "neutral"

\* a parser whose sentiment words set the category and leave the score at
\* its default
ParserSentimentKeepScore(pairs, summary) ==
    IF pairs # <<>>
    THEN LET score == SumSentimentOutlook(pairs) \div Len(pairs)
         IN [overall |-> SentimentCategory(score), score |-> score]
    ELSE IF summary # "" /\ HasBullishWord(summary)
    THEN [overall |-> "bullish", score |-> 50]
    ELSE IF summary # "" /\ HasBearishWord(summary)
    THEN [overall |-> "bearish", score |-> 50]
    ELSE [overall |-> "neutral", score |-> 50]

\* "Determine overall sentiment" (lines 902-929)
ParserSentiment(pairs, summary) ==
    IF pairs # <<>>
    THEN LET score == SumSentimentOutlook(pairs) \div Len(pairs)
         IN [overall |-> SentimentCategory(score), score |-> score]
    ELSE IF summary # "" /\ HasBullishWord(summary)
    THEN [overall |-> "bullish", score |-> 75]
    ELSE IF summary # "" /\ HasBearishWord(summary)
    THEN [overall |-> "bearish", score |-> 25]
    ELSE [overall |-> "neutral", score |-> 50]

\* "Determine impact level" (lines 931-937)
ImpactLevel(summary, score) ==
    IF HasHigh(summary) \/ score >= 80 \/ score <= 20 THEN "HIGH"
    ELSE IF HasLow(summary) \/ (40 <= score /\ score <= 60) THEN "LOW"
    ELSE "MEDIUM"

\* the try block of _parse_structured_response up to _ensure_complete_result
ParseBody(c) ==
    LET matched == IF c.summary_match = <<>> THEN "" ELSE c.summary_match[1]
        summary == IF matched = "" /\ c.nonempty THEN Strip(c.head) ELSE matched
        ranked == [i \in 1..Len(c.pairs) |-> ParsePair(c.pairs[i])]
        pairs == IF ranked = <<>>
                 THEN MentionedFrom(CommonPairs, 1, c.mentions.slash \cup c.mentions.plain,
                                    "Mentioned in analysis. See formatted text for details.", 3)
                 ELSE ranked
        sentiment == ParserSentiment(pairs, summary)
        points == IF summary # "" THEN KeyPointsOf(summary) ELSE <<>>
    IN [summary |-> summary,
        keyPoints |-> IF points = <<>>
                      THEN <<"Market analysis based on latest financial news">>
                      ELSE points,
        currencyPairRankings |-> pairs,
        riskAssessment |-> c.risk,
        tradeManagementGuidelines |-> c.guidelines,
        sentiment |-> sentiment,
        impactLevel |-> ImpactLevel(summary, sentiment.score)]

\* _ensure_complete_result
EnsureCompleteResult(result, c) ==
    [result EXCEPT
        !.summary = IF @ = "" /\ c.nonempty THEN c.head ELSE @,
        !.keyPoints = IF @ = <<>>
                      THEN <<"Market analysis based on latest financial news">> ELSE @,
        !.currencyPairRankings =
            IF @ = <<>>
            THEN <<BasicPair("EUR/USD", "Default entry. See formatted text for full analysis.")>>
            ELSE @,
        !.riskAssessment =
            [primaryRisk |-> IF @.primaryRisk = ""
                             THEN "See formatted text for detailed risk assessment"
                             ELSE @.primaryRisk,
             correlationRisk |-> IF @.correlationRisk = ""
                                 THEN "See formatted text for correlation risks"
                                 ELSE @.correlationRisk,
             volatilityPotential |-> IF @.volatilityPotential = ""
                                     THEN "See formatted text for volatility assessment"
                                     ELSE @.volatilityPotential],
        !.tradeManagementGuidelines =
            IF @ = <<>> THEN <<"See formatted text for detailed trading guidelines">> ELSE @]

\* _create_fallback_result
CreateFallbackResult(c) ==
    LET found == MentionedFrom(CommonPairs, 1, c.mentions.slash,
                               "See formatted text for detailed analysis", 3)
    IN [summary |-> c.head,
        keyPoints |-> <<"Complete analysis available in formatted text",
                        "See structured output for detailed currency pair information",
                        "Market analysis based on latest financial news">>,
        currencyPairRankings |->
            IF found = <<>>
            THEN <<BasicPair("EUR/USD", "Default entry. See formatted text for full analysis.")>>
            ELSE found,
        riskAssessment |->
            [primaryRisk |-> "See formatted text for detailed risk assessment",
             correlationRisk |-> "See formatted text for correlation risks",
             volatilityPotential |-> "See formatted text for volatility assessment"],
        tradeManagementGuidelines |-> <<"See formatted text for detailed trading guidelines">>,
        sentiment |-> [overall |-> "neutral", score |-> 50],
        impactLevel |-> "MEDIUM"]

ParseStructuredResponseRaising(c) ==
    IF c.raises THEN Raised ELSE EnsureCompleteResult(ParseBody(c), c)

\* _parse_structured_response: try ... except Exception: fallback
ParseStructuredResponse(c) ==
    IF c.raises THEN CreateFallbackResult(c) ELSE EnsureCompleteResult(ParseBody(c), c)

\* generate_summary, "Ensure all required fields are present and non-empty"
\* (lines 535-594)
CompleteResult(parsed, c) ==
    LET found == MentionedFrom(CommonPairsSummary, 1, c.mentions.slash,
                               "Mentioned in analysis. See formatted text for details.", 1)
        fill(x) == IF x = "" THEN "See formatted text for details" ELSE x
    IN [parsed EXCEPT
          !.summary = IF @ # "" THEN @
                      ELSE IF c.nonempty THEN Strip(c.head)
                      ELSE "Analysis of current forex market conditions.",
          !.keyPoints = IF @ = <<>>
                        THEN <<"Market analysis based on latest financial news">> ELSE @,
          !.currencyPairRankings =
              IF @ # <<>> THEN @
              ELSE IF c.nonempty /\ found # <<>> THEN found
              ELSE <<BasicPair("EUR/USD", "Default entry. See formatted text for full analysis.")>>,
          !.riskAssessment =
              [primaryRisk |-> fill(@.primaryRisk),
               correlationRisk |-> fill(@.correlationRisk),
               volatilityPotential |-> fill(@.volatilityPotential)],
          !.tradeManagementGuidelines =
              IF @ = <<>> THEN <<"See formatted text for detailed trading guidelines">> ELSE @]

----------------------------------------------------------------------------
(* The field merges of _merge_chunk_results.  The merge averages with true  *)
(* division, so merged outlooks and scores are rationals [num, den].        *)

Rat(n) == [num |-> n, den |-> 1]

\* (x + b) / 2 for a rational x and an integer b
RatAvg(x, b) == [num |-> x.num + b * x.den, den |-> 2 * x.den]

Max(a, b) == IF a >= b THEN a ELSE b

\* index of the entry for name in the insertion-ordered dict, 0 when absent
IndexOfPair(all_pairs, name) ==
    IF \E i \in 1..Len(all_pairs) : all_pairs[i].pair = name
    THEN CHOOSE i \in 1..Len(all_pairs) : all_pairs[i].pair = name
    ELSE 0

\* an iteration that takes the rank of the latest entry
AddPairLatestRank(all_pairs, pair) ==
    LET i == IndexOfPair(all_pairs, pair.pair)
    IN IF i # 0
       THEN [all_pairs EXCEPT ![i].rank = pair.rank, ![i].mentions = @ + 1]
       ELSE Append(all_pairs,
                   [pair |-> pair.pair, rank |-> pair.rank, maxRank |-> pair.maxRank,
                    fundamentalOutlook |-> Rat(pair.fundamentalOutlook),
                    sentimentOutlook |-> Rat(pair.sentimentOutlook),
                    rationale |-> pair.rationale, mentions |-> 1])

\* one iteration of "for pair in result.get('currencyPairRankings', [])"
AddPair(all_pairs, pair) ==
    LET i == IndexOfPair(all_pairs, pair.pair)
    IN IF pair.pair = "" THEN all_pairs
       ELSE IF i # 0
       THEN [all_pairs EXCEPT
               ![i].rank = Max(@, pair.rank),
               ![i].fundamentalOutlook = RatAvg(@, pair.fundamentalOutlook),
               ![i].sentimentOutlook = RatAvg(@, pair.sentimentOutlook),
               ![i].mentions = @ + 1,
               ![i].rationale = @ \o " " \o pair.rationale]
       ELSE Append(all_pairs,
                   [pair |-> pair.pair, rank |-> pair.rank, maxRank |-> pair.maxRank,
                    fundamentalOutlook |-> Rat(pair.fundamentalOutlook),
                    sentimentOutlook |-> Rat(pair.sentimentOutlook),
                    rationale |-> pair.rationale, mentions |-> 1])

RECURSIVE AddPairs(_, _)
AddPairs(all_pairs, pairs) ==
    IF pairs = <<>> THEN all_pairs
    ELSE AddPairs(AddPair(all_pairs, Head(pairs)), Tail(pairs))

RECURSIVE CollectPairs(_, _)
CollectPairs(all_pairs, chunk_results) ==
    IF chunk_results = <<>> THEN all_pairs
    ELSE CollectPairs(AddPairs(all_pairs, Head(chunk_results).currencyPairRankings),
                      Tail(chunk_results))

\* key=lambda x: (x["rank"], x["mentions"]), reverse=True
PairKeyGE(a, b) == a.rank > b.rank \/ (a.rank = b.rank /\ a.mentions >= b.mentions)

RECURSIVE InsertPairDesc(_, _)
InsertPairDesc(x, s) ==
    IF s = <<>> THEN <<x>>
    ELSE IF PairKeyGE(Head(s), x) THEN <<Head(s)>> \o InsertPairDesc(x, Tail(s))
    ELSE <<x>> \o s

RECURSIVE SortedPairs(_)
SortedPairs(s) ==
    IF s = <<>> THEN <<>>
    ELSE InsertPairDesc(s[Len(s)], SortedPairs(SubSeq(s, 1, Len(s) - 1)))

\* merged["currencyPairRankings"] = sorted_pairs[:8]
MergePairs(chunk_results) ==
    LET sorted == SortedPairs(CollectPairs(<<>>, chunk_results))
    IN SubSeq(sorted, 1, Min(8, Len(sorted)))

RECURSIVE SumScores(_)
SumScores(scores) == IF scores = <<>> THEN 0 ELSE Head(scores) + SumScores(Tail(scores))

\* "Calculate overall sentiment" of the merge: avg = sum / len, compared
\* with 70 and 30
MergeSentiment(scores) ==
    LET total == SumScores(scores)
        n == Len(scores)
    IN [overall |-> IF total >= 70 * n THEN "bullish"
                    ELSE IF total <= 30 * n THEN "bearish"
                    ELSE "neutral",
        score |-> [num |-> total, den |-> n]]

\* the currency pair and sentiment fields of the merged result
MergeFields(chunk_results) ==
    [currencyPairRankings |-> MergePairs(chunk_results),
     sentiment |-> MergeSentiment([i \in 1..Len(chunk_results) |->
                                      chunk_results[i].sentiment.score])]

----------------------------------------------------------------------------
(* The parser and the field merges applied to drawn inputs.  The cache and  *)
(* the clock take no part; req holds the input, out the value computed.     *)

idleVars == <<cache, access_times, access_order, max_size, hits, misses, now,
              max_chunk_size, merge_raises, llm_calls, lru_step>>

InitIdle(inputs) ==
    /\ cache = <<>>
    /\ access_times = <<>>
    /\ access_order = <<>>
    /\ hits = 0
    /\ misses = 0
    /\ max_size = 1
    /\ now = 0
    /\ max_chunk_size = 1
    /\ merge_raises = FALSE
    /\ pc = [r \in Slots |-> "idle"]
    /\ req \in [Slots -> inputs]
    /\ out = [r \in Slots |-> None]
    /\ llm_calls = [r \in Slots |-> 0]
    /\ last = [op |-> "init", key |-> NoKey]
    /\ lru_step = 0

\* a step of a computation on req[r]: from position `from` to position `to`
Compute(r, from, to, op, value) ==
    /\ pc[r] = from
    /\ pc' = [pc EXCEPT ![r] = to]
    /\ out' = [out EXCEPT ![r] = value]
    /\ last' = [op |-> op, key |-> NoKey]
    /\ UNCHANGED req
    /\ UNCHANGED idleVars

InitParse == InitIdle({[entry |-> "parse", text |-> c] : c \in Completions})

\* parsed_result = self._parse_structured_response(summary_text)
Parse(r) ==
    Compute(r, "idle", "parsed", "parse", ParseStructuredResponse(req[r].text))

\* the rest of generate_summary on the parsed result
Complete(r) ==
    Compute(r, "parsed", "done", "complete", CompleteResult(out[r], req[r].text))

\* chunk results the result is merged with
PriorCompletions ==
    {EmptyCompletion(FALSE),
     [nonempty |-> TRUE, has_break |-> TRUE, head |-> "Lead paragraph of the text.",
      summary_match |-> <<"Markets look bullish today.">>,
      pairs |-> <<PairMatch("EUR/USD", 8, <<10>>, <<60>>, <<70>>, "R1", "C1")>>,
      mentions |-> [slash |-> {"EUR/USD"}, plain |-> {}],
      risk |-> [primaryRisk |-> "P", correlationRisk |-> "C", volatilityPotential |-> "V"],
      guidelines |-> <<"G1">>, raises |-> FALSE]}

PriorResults ==
    {CompleteResult(ParseStructuredResponse(c), c) : c \in PriorCompletions}

\* _merge_chunk_results on the result and another chunk's result, in
\* either order
Merge(r) ==
    \E prior \in PriorResults, first \in BOOLEAN :
        Compute(r, "done", "merged", "merge",
                MergeFields(IF first THEN <<out[r], prior>> ELSE <<prior, out[r]>>))

NextParse ==
    \/ \E r \in Slots : Parse(r)
    \/ \E r \in Slots : Complete(r)
    \/ \E r \in Slots : Merge(r)

SpecParse == InitParse /\ [][NextParse]_vars

\* generate_summary on an empty article list: the empty-state result of
\* the base class or of the enhanced class
ReturnEmpty(r) ==
    \E result \in {EmptyResultLangChain, EmptySummaryResult} :
        Compute(r, "idle", "empty", "empty", result)

\* every way a result comes about: parser, fallback, completion, merge,
\* empty state
NextResults ==
    \/ NextParse
    \/ \E r \in Slots : ReturnEmpty(r)

SpecResults == InitParse /\ [][NextResults]_vars

MaxScores == 2        \* scores averaged at once

ScorePool == {0, 1, 29, 30, 31, 32, 50, 68, 69, 70, 71, 99, 100}

ScoreLists ==
    {<<s>> : s \in 0..100} \cup UNION {[1..n -> ScorePool] : n \in 2..MaxScores}

InitSentiment == InitIdle({[entry |-> "sentiment", scores |-> s] : s \in ScoreLists})

\* the parser on pair entries with these sentimentOutlook values
DeriveSentiment(r) ==
    Compute(r, "idle", "parsed", "derive",
            ParserSentiment([i \in 1..Len(req[r].scores) |->
                                [BasicPair("EUR/USD", "R") EXCEPT
                                    !.sentimentOutlook = req[r].scores[i]]], ""))

\* the merge on chunk results with these sentiment scores
Recategorize(r) ==
    Compute(r, "idle", "merged", "recategorize", MergeSentiment(req[r].scores))

NextSentiment ==
    \/ \E r \in Slots : DeriveSentiment(r)
    \/ \E r \in Slots : Recategorize(r)

SpecSentiment == InitSentiment /\ [][NextSentiment]_vars

----------------------------------------------------------------------------
\* Two requests in flight on one event loop.  A coroutine runs from one
\* suspension point to the next without interruption, and the only
\* suspension point of generate_summary is `await self.chain.ainvoke(...)`,
\* so each of the actions above is one uninterrupted run and the runs of
\* the two callers interleave at their awaits.

Callers == {1, 2}

\* the lists the two callers ask about: one article, and two articles in
\* either order (one cache key)
ConcLists == {Prefix(1), Prefix(2), Reverse(Prefix(2))}

InitConc ==
    /\ cache = <<>>
    /\ access_times = <<>>
    /\ access_order = <<>>
    /\ hits = 0
    /\ misses = 0
    /\ max_size \in 1..MaxCacheSize
    /\ now = 0
    /\ max_chunk_size \in 1..MaxChunkSize
    /\ merge_raises = FALSE
    /\ pc = [r \in Callers |-> "idle"]
    /\ req = [r \in Callers |-> NoReq]
    /\ out = [r \in Callers |-> None]
    /\ llm_calls = [r \in Callers |-> 0]
    /\ last = [op |-> "init", key |-> NoKey]
    /\ lru_step = 0

\* a caller's one request
ConcCall ==
    \E r \in Callers, articles \in ConcLists, use_cache \in BOOLEAN, entry \in Entries :
        /\ pc[r] = "idle"
        /\ GenerateSummary(r, articles, "q1", use_cache, entry)

NextConc ==
    \/ Tick
    \/ ConcCall
    \/ \E r \in Callers, text \in LLMTexts : LLMReturns(r, text)
    \/ \E r \in Callers : LLMRaises(r)

SpecConc == InitConc /\ [][NextConc]_vars

----------------------------------------------------------------------------
\* CacheManager statement by statement, for two callers on one event loop.
\* pc[r] is "idle" when caller r is outside the CacheManager, and names the
\* statement r has just executed when r is inside one of its methods;
\* req[r] holds the locals of the method and the cache as it was when the
\* method was entered.

MidOp == {"set_checked", "set_stored", "delete_entry", "get_deleting",
          "get_marked", "clear_cache"}

\* a caller in the middle of a method without the atomicity of the loop
LoopRunsPreemptive(r) == TRUE

\* the methods of CacheManager are plain `def`s with no await, and every
\* caller is a coroutine of the one event loop: while a caller is inside a
\* method no other caller runs
LoopRuns(r) == \A o \in Callers \ {r} : pc[o] \notin MidOp

Enter(r, op, key, value, ttl, t) ==
    [op |-> op, key |-> key, value |-> value, ttl |-> ttl, t |-> t, before |-> CM]

Step(r, to, cs, rq, ret) ==
    /\ SetCM(cs)
    /\ pc' = [pc EXCEPT ![r] = to]
    /\ req' = [req EXCEPT ![r] = IF to = "idle" THEN NoReq ELSE rq]
    /\ out' = [out EXCEPT ![r] = ret]
    /\ last' = [op |-> "statement", key |-> NoKey]
    /\ UNCHANGED <<max_size, now, max_chunk_size, merge_raises, llm_calls, lru_step>>

\* set: `if len(self.cache) >= self.max_size and key not in self.cache:
\* self._evict()`
SetCheck(r, key, ttl) ==
    /\ pc[r] = "idle"
    /\ LoopRuns(r)
    /\ Step(r, "set_checked",
            IF Cardinality(DOMAIN cache) >= max_size /\ key \notin DOMAIN cache
            THEN CacheEvict(CM) ELSE CM,
            Enter(r, "set", key, ValueAt(now), ttl, now), None)

\* set: `expiry = time.time() + ...; self.cache[key] = (value, expiry)`
SetStore(r) ==
    /\ pc[r] = "set_checked"
    /\ LoopRuns(r)
    /\ Step(r, "set_stored",
            [CM EXCEPT !.cache = Put(@, req[r].key,
                                     [value |-> req[r].value,
                                      expiry |-> now + TTLOf(req[r].ttl)])],
            [req[r] EXCEPT !.t = now], None)

\* set: `self.access_times[key] = time.time()`
SetMark(r) ==
    /\ pc[r] = "set_stored"
    /\ LoopRuns(r)
    /\ Step(r, "idle", Touch(CM, req[r].key, now), req[r], None)

\* delete: `if key in self.cache: del self.cache[key]`
DeleteEntry(r, key) ==
    /\ pc[r] = "idle"
    /\ LoopRuns(r)
    /\ Step(r, "delete_entry", [CM EXCEPT !.cache = Remove(@, key)],
            Enter(r, "delete", key, None, <<>>, now), None)

\* delete: `if key in self.access_times: del self.access_times[key]`
DeleteMarker(r) ==
    /\ pc[r] = "delete_entry"
    /\ LoopRuns(r)
    /\ Step(r, "idle",
            [CM EXCEPT !.access_times = Remove(@, req[r].key),
                       !.access_order = SelectSeqNot(@, req[r].key)],
            req[r], None)

\* get up to its first write of a dictionary: the miss of an absent key is
\* counted and returned; an expired entry is deleted from self.cache; a
\* live entry has its marker updated
GetLookup(r, key) ==
    /\ pc[r] = "idle"
    /\ LoopRuns(r)
    /\ hits + misses < MaxGets
    /\ LET rq == Enter(r, "get", key, None, <<>>, now)
       IN IF key \notin DOMAIN cache
          THEN Step(r, "idle", [CM EXCEPT !.misses = @ + 1], rq, None)
          ELSE IF now > cache[key].expiry
          THEN Step(r, "get_deleting", [CM EXCEPT !.cache = Remove(@, key)], rq, None)
          ELSE Step(r, "get_marked", Touch(CM, key, now),
                    [rq EXCEPT !.value = cache[key].value], None)

\* get after that write: the rest of self.delete(key) and `self.misses +=
\* 1`, or `self.hits += 1; return entry`
GetFinish(r) ==
    /\ pc[r] \in {"get_deleting", "get_marked"}
    /\ LoopRuns(r)
    /\ IF pc[r] = "get_deleting"
       THEN Step(r, "idle",
                 [CM EXCEPT !.access_times = Remove(@, req[r].key),
                            !.access_order = SelectSeqNot(@, req[r].key),
                            !.misses = @ + 1],
                 req[r], None)
       ELSE Step(r, "idle", [CM EXCEPT !.hits = @ + 1], req[r], req[r].value)

\* clear: `self.cache.clear()`
ClearCache(r) ==
    /\ pc[r] = "idle"
    /\ LoopRuns(r)
    /\ Step(r, "clear_cache", [CM EXCEPT !.cache = <<>>],
            Enter(r, "clear", NoKey, None, <<>>, now), None)

\* clear: `self.access_times.clear()`
ClearMarkers(r) ==
    /\ pc[r] = "clear_cache"
    /\ LoopRuns(r)
    /\ Step(r, "idle", [CM EXCEPT !.access_times = <<>>, !.access_order = <<>>],
            req[r], None)

\* the keys the two callers use
LoopKeys == {KeyA, KeyB}

InitLoop ==
    /\ InitConc
    /\ max_chunk_size = 1

NextLoop ==
    \/ Tick
    \/ \E r \in Callers, key \in LoopKeys, ttl \in {<<>>} : SetCheck(r, key, ttl)
    \/ \E r \in Callers : SetStore(r)
    \/ \E r \in Callers : SetMark(r)
    \/ \E r \in Callers, key \in LoopKeys : DeleteEntry(r, key)
    \/ \E r \in Callers : DeleteMarker(r)
    \/ \E r \in Callers, key \in LoopKeys : GetLookup(r, key)
    \/ \E r \in Callers : GetFinish(r)
    \/ \E r \in Callers : ClearCache(r)
    \/ \E r \in Callers : ClearMarkers(r)

SpecLoop == InitLoop /\ [][NextLoop]_vars

----------------------------------------------------------------------------
(* The currency pair merge applied to drawn chunk results. *)

MaxChunkResults == 2  \* chunk results merged at once

\* pair names a completion may rank: the common pairs and two crosses
PairNames == CommonPairs \o <<"EUR/GBP", "EUR/JPY">>

\* the rankings the parser returns for a completion that ranks n pairs,
\* from the a-th name on and round again, with ranks spread by v
Rankings(a, n, v) ==
    [i \in 1..n |->
        ParsePair(PairMatch(PairNames[((a + i - 2) % Len(PairNames)) + 1],
                            ((i * v + a) % 5) * 2, <<10>>, <<50>>, <<50>>, "R", ""))]

RankingsPool == {Rankings(a, n, v) : a \in {1, 4}, n \in {0, 1, 2, 9, 10}, v \in {1, 2}}

ChunkResultLists ==
    UNION {[1..n -> {[currencyPairRankings |-> p] : p \in RankingsPool}] :
              n \in 1..MaxChunkResults}

InitPairs == InitIdle({[entry |-> "pairs", chunk_results |-> c] : c \in ChunkResultLists})

\* "Collect all currency pairs" to merged["currencyPairRankings"]
MergeRankings(r) ==
    Compute(r, "idle", "merged", "merge_pairs", MergePairs(req[r].chunk_results))

NextPairs == \E r \in Slots : MergeRankings(r)

SpecPairs == InitPairs /\ [][NextPairs]_vars

----------------------------------------------------------------------------
(* Binary floating point, as far as _format_articles_for_prompt needs it.   *)
(* A positive double is [m, e]: m its 53 significand bits, most significant *)
(* first, and e the exponent of the last of them, so that its value is      *)
(* m * 2^e.  Zero is ZeroDouble.  Results are rounded to nearest, ties to   *)
(* even, as IEEE 754 binary64 arithmetic does.  Bits are handled in limbs   *)
(* that fit the integers of the checker.                                    *)

Precision == 53

\* fraction bits of a quotient worked out before rounding: enough for 53
\* significant bits and a guard bit of a / n for n < 2^11
FractionBits == Precision + 11

\* bits multiplied at once
LimbBits == Precision \div 4 + 1

ZeroDouble == [m |-> <<>>, e |-> 0]

Zeros(k) == [i \in 1..k |-> 0]

RECURSIVE Pow2(_)
Pow2(k) ==
    IF k = 0 THEN 1
    ELSE IF k % 2 = 0 THEN Pow2(k \div 2) * Pow2(k \div 2)
    ELSE 2 * Pow2(k - 1)

\* 2^k mod n
RECURSIVE Pow2Mod(_, _)
Pow2Mod(k, n) ==
    IF k = 0 THEN 1 % n
    ELSE IF k % 2 = 0 THEN (Pow2Mod(k \div 2, n) * Pow2Mod(k \div 2, n)) % n
    ELSE (2 * Pow2Mod(k - 1, n)) % n

\* the number with bits b, below 2^31
RECURSIVE NatOfBits(_)
NatOfBits(b) ==
    IF b = <<>> THEN 0
    ELSE IF Len(b) = 1 THEN b[1]
    ELSE LET half == Len(b) \div 2
         IN NatOfBits(SubSeq(b, 1, half)) * Pow2(Len(b) - half)
                + NatOfBits(SubSeq(b, half + 1, Len(b)))

\* the low width bits of n
BitsOfWidth(n, width) == [i \in 1..width |-> (n \div Pow2(width - i)) % 2]

StripZeros(b) ==
    LET ones == {i \in 1..Len(b) : b[i] = 1}
    IN IF ones = {} THEN <<>>
       ELSE SubSeq(b, CHOOSE i \in ones : \A j \in ones : i <= j, Len(b))

\* the bits of n, below 2^31, without leading zeros
BitsOfNat(n) == StripZeros(BitsOfWidth(n, 31))

\* b + 1 on bits that are not all ones
Increment(b) ==
    LET zeros == {i \in 1..Len(b) : b[i] = 0}
        last0 == CHOOSE i \in zeros : \A j \in zeros : i >= j
    IN [i \in 1..Len(b) |-> IF i < last0 THEN b[i] ELSE IF i = last0 THEN 1 ELSE 0]

\* the double nearest to b * 2^e, where b has no leading zero and sticky
\* tells that the exact value lies above b * 2^e by less than 2^e
RoundToDouble(b, e, sticky) ==
    IF b = <<>> THEN ZeroDouble
    ELSE IF Len(b) <= Precision
    THEN [m |-> b \o Zeros(Precision - Len(b)), e |-> e - (Precision - Len(b))]
    ELSE LET m == SubSeq(b, 1, Precision)
             guard == b[Precision + 1]
             rest == \E i \in (Precision + 2)..Len(b) : b[i] = 1
             up == guard = 1 /\ (rest \/ sticky \/ m[Precision] = 1)
             e2 == e + (Len(b) - Precision)
         IN IF ~up THEN [m |-> m, e |-> e2]
            ELSE IF \A i \in 1..Precision : m[i] = 1
            THEN [m |-> <<1>> \o Zeros(Precision - 1), e |-> e2 + 1]
            ELSE [m |-> Increment(m), e |-> e2]

\* the i-th bit after the point of a / n, by long division: the remainder
\* before it is a * 2^(i-1) mod n
FractionBit(a, n, i) == (2 * (((a % n) * Pow2Mod(i - 1, n)) % n)) \div n

\* a / n in double arithmetic, for integers a >= 0 and 0 < n < 2^11 that
\* floats represent exactly
DoubleDiv(a, n) ==
    RoundToDouble(StripZeros(BitsOfNat(a \div n)
                                \o [i \in 1..FractionBits |-> FractionBit(a, n, i)]),
                  0 - FractionBits,
                  ((a % n) * Pow2Mod(FractionBits, n)) % n # 0)

\* the bits of b * k + carry, a limb of b at a time from the right
RECURSIVE MulBits(_, _, _)
MulBits(b, k, carry) ==
    IF b = <<>> THEN BitsOfNat(carry)
    ELSE LET width == Min(LimbBits, Len(b))
             v == NatOfBits(SubSeq(b, Len(b) - width + 1, Len(b))) * k + carry
         IN MulBits(SubSeq(b, 1, Len(b) - width), k, v \div Pow2(width))
                \o BitsOfWidth(v, width)

\* k * x in double arithmetic, for an integer 0 <= k < 2^16 that floats
\* represent exactly
DoubleMulInt(k, x) ==
    IF k = 0 \/ x = ZeroDouble THEN ZeroDouble
    ELSE RoundToDouble(StripZeros(MulBits(x.m, k, 0)), x.e, FALSE)

\* int(x): truncation, for x below 2^31
IntOfDouble(x) ==
    IF x = ZeroDouble \/ Precision + x.e <= 0 THEN 0
    ELSE IF x.e >= 0 THEN NatOfBits(x.m \o Zeros(x.e))
    ELSE NatOfBits(SubSeq(x.m, 1, Precision + x.e))

\* max(800, int(max_content_chars * (10 / len(selected_articles))))
DynamicContentSize(max_content_chars, count) ==
    Max(800, IntOfDouble(DoubleMulInt(max_content_chars, DoubleDiv(10, count))))

----------------------------------------------------------------------------
(* _format_articles_for_prompt applied to drawn article lists and settings. *)

MaxPromptArticles == 40   \* articles handed to the prompt builder

\* int(os.getenv("MAX_SUMMARY_ARTICLES", "100"))
SummaryArticlesSettings == {39, 100}

\* int(os.getenv("MAX_ARTICLE_CONTENT_CHARS", "1500"))
ContentCharsSettings == {0, 117, 1500, 3159}

\* len(payload["content"]) of the article looked at
ContentLengths == {0, 500, 809, 810, 2000}

PromptInputs ==
    {[entry |-> "prompt", articles |-> n, max_articles |-> a,
      max_content_chars |-> m, content |-> c] :
        n \in 1..MaxPromptArticles, a \in SummaryArticlesSettings,
        m \in ContentCharsSettings, c \in ContentLengths}

InitPrompt == InitIdle(PromptInputs)

\* len(selected_articles): sorted_articles[:max_articles] when there are more
SelectedCount(articles, max_articles) ==
    IF articles > max_articles THEN max_articles ELSE articles

\* the budget and the length of content[:dynamic_content_size] of an article
FormatArticlesForPrompt(rq) ==
    LET selected == SelectedCount(rq.articles, rq.max_articles)
        size == DynamicContentSize(rq.max_content_chars, selected)
    IN [selected |-> selected,
        dynamic_content_size |-> size,
        emitted |-> Min(rq.content, size)]

FormatArticles(r) ==
    Compute(r, "idle", "formatted", "format", FormatArticlesForPrompt(req[r]))

NextPrompt == \E r \in Slots : FormatArticles(r)

SpecPrompt == InitPrompt /\ [][NextPrompt]_vars

----------------------------------------------------------------------------
(* Claims about CacheManager, checked under SpecCache *)

Keys == DOMAIN cache

GetTags == {"get_absent", "get_expired", "get_hit"}

SetTags == {"set_present", "set_full", "set_new"}

MinAccess(k) == \A j \in DOMAIN access_times : access_times[k] <= access_times[j]

\* C1 as stated: with max_size = 2, after set A, set B, get A (a hit),
\* set C, the cache holds A and C, and B is absent.
OriginalC1 == lru_step = 4 => Keys = {KeyA, KeyC}

\* C1 amended: a set of a new key into a cache holding max_size entries
\* removes exactly one entry, one whose last-access marker is minimal, and
\* no other; a set of a present key removes nothing.  With max_size = 2,
\* set A, set B, get A, set C leaves A and C when get A read a clock
\* strictly later than B's marker; when the two readings are equal the tie
\* goes to the entry inserted first and A is evicted, B and C are left.
TheoremC1 ==
    [][last'.op \in SetTags =>
         LET key == last'.key IN
            /\ (key \notin Keys /\ Cardinality(Keys) >= max_size) =>
                  \E victim \in Keys :
                      /\ MinAccess(victim)
                      /\ DOMAIN cache' = (Keys \ {victim}) \cup {key}
            /\ (key \in Keys \/ Cardinality(Keys) < max_size) =>
                  DOMAIN cache' = Keys \cup {key}
            /\ (lru_step = 3 /\ lru_step' = 4) =>
                  IF access_times[KeyA] > access_times[KeyB]
                  THEN DOMAIN cache' = {KeyA, KeyC}
                  ELSE DOMAIN cache' = {KeyB, KeyC}
      ]_vars

WitnessC1 == lru_step = 4 /\ Keys = {KeyA, KeyC}

\* C2: a get of an entry with now > expiry returns absent, removes the
\* entry and its last-access marker and counts a miss, not a hit; a get at
\* now <= expiry is a hit that returns the stored value.
TheoremC2 ==
    [][(last'.op \in GetTags /\ last'.key \in Keys) =>
         LET key == last'.key IN
            IF now > cache[key].expiry
            THEN /\ CacheGet(CM, key, now).ret = None
                 /\ key \notin DOMAIN cache'
                 /\ key \notin DOMAIN access_times'
                 /\ misses' = misses + 1
                 /\ hits' = hits
                 /\ \A k \in Keys \ {key} : k \in DOMAIN cache' /\ cache'[k] = cache[k]
            ELSE /\ CacheGet(CM, key, now).ret = cache[key].value
                 /\ hits' = hits + 1
                 /\ misses' = misses
                 /\ cache' = cache
      ]_vars

WitnessC2 == last.op = "get_expired" /\ misses = 1 /\ Keys = {}

\* C3: for every max_size >= 1 the number of stored entries never exceeds
\* max_size.
TheoremC3 == max_size >= 1 => Cardinality(Keys) <= max_size

WitnessC3 == last.op = "set_full" /\ Cardinality(Keys) = max_size

\* C4: the passage of time alone removes no entry and leaves the reported
\* size alone; an entry, expired or not, leaves the cache only by a get of
\* its key after its expiry, a delete of its key, clear, or as the LRU
\* victim of a set of a new key into a full cache.
TheoremC4 ==
    [][/\ last'.op = "tick" => (cache' = cache /\ access_times' = access_times
                                /\ StatsSize(CM)' = StatsSize(CM))
       /\ \A k \in Keys \ DOMAIN cache' :
            \/ last' = [op |-> "get_expired", key |-> k] /\ now > cache[k].expiry
            \/ last' = [op |-> "delete", key |-> k]
            \/ last'.op = "clear"
            \/ /\ last'.op = "set_full"
               /\ last'.key \notin Keys
               /\ Cardinality(Keys) >= max_size
               /\ k = LruKey(CM)
      ]_vars

\* an expired entry is still stored after the clock moved past its expiry,
\* and the cache is full
WitnessC4 ==
    /\ last.op = "tick"
    /\ Cardinality(Keys) = max_size
    /\ \E k \in Keys : now > cache[k].expiry

----------------------------------------------------------------------------
(* Claims about generate_summary *)

\* the lists that hold the same articles as a, in any order
Reorderings(a) ==
    {p \in ArticleLists : Len(p) = Len(a) /\ {p[i] : i \in 1..Len(p)} = {a[i] : i \in 1..Len(a)}}

\* the previous call returned a result it computed and the step is the
\* next call, with use_cache, for the same query and the same article ids
RepeatsCall(r, mode) ==
    /\ last'.op = "call"
    /\ pc[r] = "done"
    /\ req[r].mode = mode
    /\ req[r].use_cache
    /\ "formatted_text" \in DOMAIN out[r]
    /\ req'[r].use_cache
    /\ req'[r].entry = req[r].entry
    /\ req'[r].query = req[r].query
    /\ req'[r].articles \in Reorderings(req[r].articles)

\* C5 as stated: on the single-pass path (at most max_chunk_size articles,
\* use_cache), after a first call returned successfully, a second call with
\* the same query and article ids made before the TTL elapsed returns the
\* identical result with zero LLM calls.
OriginalC5 ==
    [][\A r \in Slots :
         (RepeatsCall(r, "single") /\ now <= req[r].done_at + DefaultTTL) =>
            /\ pc'[r] = "done"
            /\ out'[r] = out[r]
            /\ llm_calls'[r] = 0
      ]_vars

\* C6: the chunked path with use_cache and at least one successful chunk
\* ends by storing the merged result under the key of the whole request
\* (original query, all article ids) and returns it; the next call with the
\* same query and article ids, made while the entry has not expired,
\* returns that stored result with zero LLM calls.
TheoremC6 ==
    [][\A r \in Slots :
         /\ (/\ pc[r] = "llm" /\ pc'[r] = "done"
             /\ req[r].mode = "chunked" /\ req[r].use_cache
             /\ req'[r].chunk_results # <<>>) =>
                LET key == GetCacheKey(req[r].articles, req[r].query)
                IN /\ out'[r] = MergeChunkResults(req'[r].chunk_results, req[r].query)
                   /\ key \in DOMAIN cache'
                   /\ cache'[key].value = out'[r]
                   /\ cache'[key].expiry = now + DefaultTTL
         /\ (/\ RepeatsCall(r, "chunked")
             /\ req[r].cache_key \in DOMAIN cache
             /\ now <= cache[req[r].cache_key].expiry) =>
                /\ pc'[r] = "done"
                /\ out'[r] = out[r]
                /\ out'[r] = cache[req[r].cache_key].value
                /\ llm_calls'[r] = 0
      ]_vars

\* a repeated chunked request was served from the cache
WitnessC6 ==
    \E r \in Slots :
        /\ last.op = "call"
        /\ pc[r] = "done"
        /\ req[r].mode = "cached"
        /\ req[r].entry = "Enhanced"
        /\ Len(req[r].articles) > max_chunk_size
        /\ "processingDetails" \in DOMAIN out[r]
        /\ out[r].articleCount = Len(req[r].articles)
        /\ llm_calls[r] = 0

\* C7: for a fixed query the cache key of a call is the key of every
\* permutation of its article list, and computing it again gives it again.
TheoremC7 ==
    \A r \in Slots :
        (last.op = "call" /\ req[r].use_cache /\ req[r].articles # <<>>) =>
            /\ req[r].cache_key = GetCacheKey(req[r].articles, req[r].query)
            /\ \A p \in Reorderings(req[r].articles) :
                   GetCacheKey(p, req[r].query) = req[r].cache_key

\* a call on three articles given in an order that is not the order of
\* their ids
WitnessC7 ==
    \E r \in Slots :
        /\ last.op = "call"
        /\ req[r].use_cache
        /\ Len(req[r].articles) = 3
        /\ req[r].articles[1].id > req[r].articles[2].id
        /\ req[r].cache_key.ids = <<1, 2, 3>>

\* C8 as stated: a call with an empty article list returns the canned
\* result with impactLevel LOW and sentiment neutral/50, and makes no LLM
\* call.
OriginalC8 ==
    \A r \in Slots :
        (pc[r] = "done" /\ req[r].articles = <<>>) =>
            /\ out[r].impactLevel = "LOW"
            /\ out[r].sentiment = [overall |-> "neutral", score |-> 50]
            /\ llm_calls[r] = 0

RECURSIVE Flatten(_)
Flatten(ss) == IF ss = <<>> THEN <<>> ELSE Head(ss) \o Flatten(Tail(ss))

CeilDiv(n, c) == (n + c - 1) \div c

\* C9: N > C articles are cut into exactly ceil(N/C) consecutive chunks of
\* the sorted list, pairwise disjoint, whose concatenation is the sorted
\* list; every chunk has at most C articles and all but the last exactly
\* C; one LLM call is made per chunk.
TheoremC9 ==
    \A r \in Slots :
        (pc[r] # "idle" /\ req[r].mode = "chunked") =>
            LET a == req[r].articles
                ch == req[r].chunks
                c == max_chunk_size
                sorted == Flatten(ch)
            IN /\ Len(a) > c
               /\ Len(ch) = CeilDiv(Len(a), c)
               /\ \A i \in 1..Len(ch) : Len(ch[i]) >= 1 /\ Len(ch[i]) <= c
               /\ \A i \in 1..(Len(ch) - 1) : Len(ch[i]) = c
               /\ sorted \in Reorderings(a)
               /\ \A i, j \in 1..Len(sorted) : i < j => KeyGE(sorted[i], sorted[j])
               /\ \A i, j \in 1..Len(ch) :
                      i # j => {ch[i][k] : k \in 1..Len(ch[i])}
                               \cap {ch[j][k] : k \in 1..Len(ch[j])} = {}
               /\ pc[r] = "llm" => llm_calls[r] = ChunkIdx(req[r])
               /\ pc[r] = "done" => llm_calls[r] = Len(ch)

\* three articles with chunks of two: chunks of 2 and 1, two LLM calls
WitnessC9 ==
    \E r \in Slots :
        /\ pc[r] = "done"
        /\ req[r].mode = "chunked"
        /\ Len(req[r].articles) = 3
        /\ max_chunk_size = 2
        /\ Len(req[r].chunks) = 2
        /\ Len(req[r].chunks[2]) = 1
        /\ llm_calls[r] = 2

\* C10: when every chunk succeeds the merged articleCount is the number of
\* articles of the request, the sum of the chunks' article counts.
TheoremC10 ==
    \A r \in Slots :
        (pc[r] = "done" /\ req[r].mode = "chunked" /\ req[r].chunk_errors = 0) =>
            /\ out[r].articleCount = Len(req[r].articles)
            /\ out[r].articleCount = SumArticleCount(req[r].chunk_results)
            /\ \A i \in 1..Len(req[r].chunks) :
                   req[r].chunk_results[i].articleCount = Len(req[r].chunks[i])

\* a merge of two successful chunks of unequal size
WitnessC10 ==
    \E r \in Slots :
        /\ pc[r] = "done"
        /\ req[r].mode = "chunked"
        /\ req[r].chunk_errors = 0
        /\ Len(req[r].chunk_results) = 2
        /\ out[r].articleCount = 3

\* C11: a chunk whose LLM call fails is counted and skipped and every
\* remaining chunk is still attempted; when at least one chunk succeeded
\* the merged result is built from exactly the successful chunks, with
\* chunksProcessed = successes, totalChunks = chunks produced and
\* chunkErrorCount = failures, so that chunksProcessed + chunkErrorCount =
\* totalChunks.
TheoremC11 ==
    \A r \in Slots :
        (pc[r] # "idle" /\ req[r].mode = "chunked") =>
            LET rq == req[r]
                ok == Len(rq.chunk_results)
                n == Len(rq.chunks)
            IN /\ pc[r] = "llm" => llm_calls[r] = ok + rq.chunk_errors + 1
               /\ \A i \in 1..ok :
                      /\ rq.chunk_results[i].chunk_index \in 0..(n - 1)
                      /\ rq.chunk_results[i].chunk_count = n
                      /\ rq.chunk_results[i].articleCount =
                             Len(rq.chunks[rq.chunk_results[i].chunk_index + 1])
               /\ \A i, j \in 1..ok :
                      i < j => rq.chunk_results[i].chunk_index < rq.chunk_results[j].chunk_index
               /\ (pc[r] = "done" /\ ok > 0) =>
                      /\ llm_calls[r] = n
                      /\ ok + rq.chunk_errors = n
                      /\ out[r].processingDetails.chunksProcessed = ok
                      /\ out[r].processingDetails.totalChunks = n
                      /\ out[r].processingDetails.chunkErrorCount = rq.chunk_errors
                      /\ out[r].articleCount = SumArticleCount(rq.chunk_results)
                      /\ out[r].formatted_text = rq.chunk_results[1].formatted_text

\* three chunks, the second failed: merged from chunks 1 and 3
WitnessC11 ==
    \E r \in Slots :
        /\ pc[r] = "done"
        /\ req[r].mode = "chunked"
        /\ Len(req[r].chunks) = 3
        /\ req[r].chunk_errors = 1
        /\ Len(req[r].chunk_results) = 2
        /\ req[r].chunk_results[1].chunk_index = 0
        /\ req[r].chunk_results[2].chunk_index = 2
        /\ out[r].processingDetails.chunksProcessed = 2
        /\ out[r].processingDetails.chunkErrorCount = 1

\* C12 as stated: when the LLM call of a single-pass generation fails the
\* call ends with an error raised to its caller, not with a result.
OriginalC12 ==
    \A r \in Slots :
        (/\ last.op = "llm_raises" /\ pc[r] = "done"
         /\ req[r].mode \in {"single", "langchain"}) =>
            out[r] = Raised

\* C13 as stated: when every chunk of a chunked generation failed the call
\* ends with an error, and its outcome differs from the result the same
\* entry point returns for an empty article list.
OriginalC13 ==
    \A r \in Slots :
        (pc[r] = "done" /\ req[r].mode = "chunked" /\ req[r].chunk_results = <<>>) =>
            /\ out[r] = Raised
            /\ out[r] # EmptySummaryResult

\* C20: within a chunked request the chunks are taken one at a time in
\* ascending index: the call for chunk 1 is the first, the call for chunk
\* i+1 starts in the step in which the call for chunk i returned or raised,
\* never earlier and with no chunk skipped; the successful results are
\* kept in ascending chunk index and the merge takes the lowest-index
\* successful chunk as its base.
TheoremC20 ==
    [][\A r \in Slots :
         (pc'[r] # "idle" /\ req'[r].mode = "chunked") =>
            LET rq == req'[r]
                ok == Len(rq.chunk_results)
            IN /\ last'.op = "call" =>
                     (pc'[r] = "llm" /\ ChunkIdx(rq) = 1 /\ llm_calls'[r] = 1)
               /\ last'.op \in {"llm_returns", "llm_raises"} =>
                     /\ pc[r] = "llm"
                     /\ ChunkIdx(rq) = ChunkIdx(req[r]) + 1
                     /\ pc'[r] = "llm" =>
                            (llm_calls'[r] = llm_calls[r] + 1 /\ ChunkIdx(rq) <= Len(rq.chunks))
                     /\ pc'[r] = "done" =>
                            (llm_calls'[r] = llm_calls[r] /\ ChunkIdx(rq) = Len(rq.chunks) + 1)
                     /\ last'.op = "llm_returns" =>
                            rq.chunk_results[ok].chunk_index = ChunkIdx(req[r]) - 1
               /\ last'.op = "tick" => UNCHANGED <<pc, req, llm_calls>>
               /\ \A i, j \in 1..ok :
                      i < j => rq.chunk_results[i].chunk_index < rq.chunk_results[j].chunk_index
               /\ (pc'[r] = "done" /\ ok > 0) =>
                      /\ out'[r].chunk_index = rq.chunk_results[1].chunk_index
                      /\ out'[r].formatted_text = rq.chunk_results[1].formatted_text
                      /\ \A i \in 1..ok : out'[r].chunk_index <= rq.chunk_results[i].chunk_index
      ]_vars

\* the first chunk failed and two later chunks with different completions
\* succeeded: the merge is based on the second chunk
WitnessC20 ==
    \E r \in Slots :
        /\ pc[r] = "done"
        /\ req[r].mode = "chunked"
        /\ Len(req[r].chunk_results) = 2
        /\ req[r].chunk_results[1].chunk_index = 1
        /\ req[r].chunk_results[1].formatted_text # req[r].chunk_results[2].formatted_text
        /\ out[r].chunk_index = 1
        /\ out[r].formatted_text = req[r].chunk_results[1].formatted_text

----------------------------------------------------------------------------
(* Claims about the response parser and the field merges *)

\* C14 as stated: whatever the completion text (the empty string included),
\* the output of _parse_structured_response has a non-empty summary, at
\* least one key point, at least one currency pair ranking, three
\* non-empty risk fields and at least one trade management guideline.
OriginalC14 ==
    \A r \in Slots :
        pc[r] = "parsed" =>
            /\ out[r].summary # ""
            /\ Len(out[r].keyPoints) >= 1
            /\ Len(out[r].currencyPairRankings) >= 1
            /\ out[r].riskAssessment.primaryRisk # ""
            /\ out[r].riskAssessment.correlationRisk # ""
            /\ out[r].riskAssessment.volatilityPotential # ""
            /\ Len(out[r].tradeManagementGuidelines) >= 1

\* C15: for every integer score in 0..100 the category is bullish iff the
\* score is >= 70, bearish iff it is <= 30 and neutral otherwise, both for
\* the score the parser derives from the pairs' sentimentOutlook values
\* (the floor of their mean) and for the mean of chunk scores the merge
\* re-categorizes.
TheoremC15 ==
    \A r \in Slots :
        /\ pc[r] = "parsed" =>
              LET s == out[r].score
                  scores == req[r].scores
              IN /\ s = SumScores(scores) \div Len(scores)
                 /\ s \in 0..100
                 /\ out[r].overall = "bullish" <=> s >= 70
                 /\ out[r].overall = "bearish" <=> s <= 30
                 /\ out[r].overall = "neutral" <=> (30 < s /\ s < 70)
        /\ pc[r] = "merged" =>
              LET num == out[r].score.num
                  den == out[r].score.den
              IN /\ num = SumScores(req[r].scores) /\ den = Len(req[r].scores)
                 /\ out[r].overall = "bullish" <=> num >= 70 * den
                 /\ out[r].overall = "bearish" <=> num <= 30 * den
                 /\ out[r].overall = "neutral" <=> (30 * den < num /\ num < 70 * den)
                 /\ num % den = 0 =>
                       LET s == num \div den
                       IN /\ s \in 0..100
                          /\ out[r].overall = "bullish" <=> s >= 70
                          /\ out[r].overall = "bearish" <=> s <= 30

\* two chunk scores whose mean is exactly 70: bullish
WitnessC15 ==
    \E r \in Slots :
        /\ pc[r] = "merged"
        /\ req[r].scores = <<69, 71>>
        /\ out[r].overall = "bullish"
        /\ out[r].score = [num |-> 140, den |-> 2]

\* C16: _parse_structured_response returns a result object for every
\* completion and never raises; when a step of the extraction raises, the
\* result is the fallback: the first paragraph as summary, the first up to
\* three common pairs the text names or one default EUR/USD entry,
\* placeholder risk and guideline strings, sentiment neutral/50.
TheoremC16 ==
    \A r \in Slots :
        pc[r] = "parsed" =>
            /\ out[r] # Raised
            /\ DOMAIN out[r] = {"summary", "keyPoints", "currencyPairRankings",
                                "riskAssessment", "tradeManagementGuidelines",
                                "sentiment", "impactLevel"}
            /\ req[r].text.raises =>
                  LET c == req[r].text
                      pairs == out[r].currencyPairRankings
                      named == {CommonPairs[i] : i \in 1..Len(CommonPairs)}
                                   \cap c.mentions.slash
                  IN /\ out[r].summary = c.head
                     /\ Len(pairs) = IF named = {} THEN 1 ELSE Min(3, Cardinality(named))
                     /\ \A i \in 1..Len(pairs) :
                            /\ pairs[i].pair \in (IF named = {} THEN {"EUR/USD"} ELSE named)
                            /\ pairs[i].rank = 5 /\ pairs[i].maxRank = 10
                            /\ pairs[i].fundamentalOutlook = 50
                            /\ pairs[i].sentimentOutlook = 50
                            /\ pairs[i].rationale # ""
                     /\ \A i, j \in 1..Len(pairs) : i # j => pairs[i].pair # pairs[j].pair
                     /\ out[r].riskAssessment =
                            [primaryRisk |-> "See formatted text for detailed risk assessment",
                             correlationRisk |-> "See formatted text for correlation risks",
                             volatilityPotential |-> "See formatted text for volatility assessment"]
                     /\ out[r].tradeManagementGuidelines =
                            <<"See formatted text for detailed trading guidelines">>
                     /\ out[r].sentiment = [overall |-> "neutral", score |-> 50]

\* the extraction raised on a text that names four common pairs: the
\* fallback lists the first three
WitnessC16 ==
    \E r \in Slots :
        /\ pc[r] = "parsed"
        /\ req[r].text.raises
        /\ Cardinality(req[r].text.mentions.slash) = 4
        /\ Len(out[r].currencyPairRankings) = 3
        /\ out[r].currencyPairRankings[3].pair = "GBP/USD"
        /\ out[r].summary = req[r].text.head

\* C17 as stated: every currency pair ranking of a result of the parser or
\* of the merge has 0 <= rank <= maxRank and both outlooks in 0..100,
\* whatever numbers the completion states.
OriginalC17 ==
    \A r \in Slots :
        /\ pc[r] \in {"parsed", "done"} =>
              \A i \in 1..Len(out[r].currencyPairRankings) :
                  LET p == out[r].currencyPairRankings[i]
                  IN /\ 0 <= p.rank /\ p.rank <= p.maxRank
                     /\ 0 <= p.fundamentalOutlook /\ p.fundamentalOutlook <= 100
                     /\ 0 <= p.sentimentOutlook /\ p.sentimentOutlook <= 100
        /\ pc[r] = "merged" =>
              \A i \in 1..Len(out[r].currencyPairRankings) :
                  LET p == out[r].currencyPairRankings[i]
                  IN /\ 0 <= p.rank /\ p.rank <= p.maxRank
                     /\ 0 <= p.fundamentalOutlook.num
                     /\ p.fundamentalOutlook.num <= 100 * p.fundamentalOutlook.den
                     /\ 0 <= p.sentimentOutlook.num
                     /\ p.sentimentOutlook.num <= 100 * p.sentimentOutlook.den

----------------------------------------------------------------------------
(* Claims about requests in flight together, checked under SpecConc *)

\* the step ends caller r's request with a result that generate_summary
\* stores in the cache
WritesStep(r) ==
    /\ pc[r] = "llm"
    /\ pc'[r] = "done"
    /\ req[r].use_cache
    /\ req[r].mode \in {"langchain", "chunked"}
    /\ out'[r] \notin {Raised, EmptySummaryResult}

\* the step is caller r's call, for a non-empty list, and it finds no live
\* entry under its key
MissStep(r) ==
    /\ pc[r] = "idle"
    /\ pc'[r] # "idle"
    /\ req'[r].articles # <<>>
    /\ req'[r].use_cache
    /\ \/ req'[r].cache_key \notin DOMAIN cache
       \/ now > cache[req'[r].cache_key].expiry

(* C18: there is no coalescing of identical requests in flight.  A call
   that misses goes to the LLM itself, whatever the other caller is
   waiting for, and a request that ends with a result to cache writes it
   under its key over whatever an earlier request left there: after the
   write the key holds this request's result and the cache holds one
   entry for the key. *)
TheoremC18 ==
    [][\A r \in Callers :
          /\ MissStep(r) => (pc'[r] = "llm" /\ llm_calls'[r] = 1 /\ misses' = misses + 1)
          /\ WritesStep(r) =>
                LET k == req[r].cache_key
                IN /\ k \in DOMAIN cache'
                   /\ cache'[k].value = out'[r]
                   /\ Cardinality({i \in 1..Len(access_order') : access_order'[i] = k}) = 1
                   /\ Cardinality(DOMAIN cache') <= max_size]_vars

\* both callers asked for the same key, both missed, both called the LLM
\* once, and the cache holds the one entry the second writer left
WitnessC18 ==
    /\ pc[1] = "done" /\ pc[2] = "done"
    /\ req[1].mode = "langchain" /\ req[2].mode = "langchain"
    /\ req[1].use_cache /\ req[2].use_cache
    /\ req[1].cache_key = req[2].cache_key
    /\ req[1].articles # req[2].articles
    /\ llm_calls[1] = 1 /\ llm_calls[2] = 1
    /\ misses = 2 /\ hits = 0
    /\ out[1] \notin {Raised, out[2]} /\ out[2] # Raised
    /\ DOMAIN cache = {req[1].cache_key}
    /\ cache[req[1].cache_key].value = out[2]

----------------------------------------------------------------------------
(* Claims about the statements of CacheManager, checked under SpecLoop *)

\* every entry has its marker and the capacity is respected
Consistent(cs) ==
    /\ DOMAIN cs.cache = DOMAIN cs.access_times
    /\ Cardinality(DOMAIN cs.cache) <= max_size

\* the method whose locals are rq, applied in one piece to the cache it
\* was entered with; t2 is the last clock reading of the method
WholeOp(rq, t2) ==
    IF rq.op = "set"
    THEN [cs |-> CacheSet(rq.before, rq.key, rq.value, rq.ttl, rq.t, t2, max_size),
          ret |-> None]
    ELSE IF rq.op = "delete"
    THEN [cs |-> CacheDelete(rq.before, rq.key), ret |-> None]
    ELSE IF rq.op = "get"
    THEN CacheGet(rq.before, rq.key, rq.t)
    ELSE [cs |-> CacheClear(rq.before), ret |-> None]

(* C19: each operation of the cache takes effect in one piece with respect
   to the other caller.  While a caller is between two statements of get,
   set, delete or clear, the other caller is outside the cache and does
   not move; a caller enters an operation only on a cache in which every
   entry has its marker and the capacity is respected; and when the
   operation returns, the cache and the returned value are those of the
   whole operation applied to the cache as it was on entry. *)
TheoremC19 ==
    [][/\ (\A o \in Callers : pc[o] = "idle") => Consistent(CM)
       /\ \A r \in Callers :
             /\ pc[r] \in MidOp =>
                   \A o \in Callers \ {r} :
                       pc[o] = "idle" /\ pc'[o] = "idle" /\ out'[o] = out[o]
             /\ (pc[r] = "idle" /\ pc'[r] # "idle") => Consistent(CM)
             /\ (pc[r] \in MidOp /\ pc'[r] = "idle") =>
                   /\ CM' = WholeOp(req[r], now).cs
                   /\ out'[r] = WholeOp(req[r], now).ret
                   /\ Consistent(CM')]_vars

\* caller 1 is inside set on a full cache: the eviction is done, the entry
\* is stored and its marker is not; caller 2, which has read a value
\* before, is outside the cache
WitnessC19 ==
    /\ pc[1] = "set_stored"
    /\ req[1].key \in DOMAIN cache
    /\ req[1].key \notin DOMAIN access_times
    /\ Cardinality(DOMAIN req[1].before.cache) = max_size
    /\ req[1].key \notin DOMAIN req[1].before.cache
    /\ DOMAIN req[1].before.cache \cap DOMAIN cache = {}
    /\ pc[2] = "idle"
    /\ out[2] # None

----------------------------------------------------------------------------
(* Claims about the chunk passes and the cache, checked under SpecCall *)

(* C21: the chunk passes of a chunked generation do not use the cache.
   While the request is suspended in the LLM call of a chunk, no step
   changes the hit or miss counters; a step that goes on to the next chunk
   leaves the cache as it is; the step that ends the request stores at
   most the key of the full request, and only when use_cache is set; and
   no key made of a chunk's articles is ever stored. *)
TheoremC21 ==
    [][\A r \in Slots :
          (pc[r] = "llm" /\ req[r].mode = "chunked") =>
              /\ hits' = hits
              /\ misses' = misses
              /\ pc'[r] = "llm" =>
                    (cache' = cache /\ access_times' = access_times)
              /\ pc'[r] = "done" =>
                    /\ DOMAIN cache' \subseteq DOMAIN cache \cup {req[r].cache_key}
                    /\ cache' # cache => req[r].use_cache
              /\ \A i \in 1..Len(req[r].chunks), q \in Queries :
                    GetCacheKey(req[r].chunks[i], q) \notin DOMAIN cache']_vars

\* a chunked request with use_cache set has ended: one lookup was counted
\* at the start and the cache holds the key of the full request alone
WitnessC21 ==
    \E r \in Slots :
        /\ pc[r] = "done"
        /\ req[r].mode = "chunked"
        /\ req[r].use_cache
        /\ Len(req[r].chunks) = 3
        /\ Len(req[r].chunk_results) = 3
        /\ hits = 0 /\ misses = 1
        /\ DOMAIN cache = {req[r].cache_key}

----------------------------------------------------------------------------
(* Claims about a failing merge, checked under SpecMergeFault *)

(* C22: when the merge of the chunk results raises, the request does not
   end with an error: it returns the result of the first successful chunk
   as that chunk's pass produced it, with that chunk's articleCount and
   chunk metadata and without processingDetails. *)
TheoremC22 ==
    \A r \in Slots :
        (/\ pc[r] = "done"
         /\ req[r].mode = "chunked"
         /\ merge_raises
         /\ req[r].chunk_results # <<>>) =>
            LET first == req[r].chunk_results[1]
            IN /\ out[r] = first
               /\ out[r] # Raised
               /\ "processingDetails" \notin DOMAIN out[r]
               /\ out[r].articleCount = Len(req[r].chunks[first.chunk_index + 1])
               /\ \A i \in 1..Len(req[r].chunk_results) :
                      first.chunk_index <= req[r].chunk_results[i].chunk_index

\* the first chunk failed, two later chunks succeeded, the merge raised:
\* the second chunk's result is returned
WitnessC22 ==
    \E r \in Slots :
        /\ pc[r] = "done"
        /\ req[r].mode = "chunked"
        /\ merge_raises
        /\ Len(req[r].chunks) = 3
        /\ Len(req[r].chunk_results) = 2
        /\ req[r].chunk_results[1].chunk_index = 1
        /\ out[r] = req[r].chunk_results[1]
        /\ req[r].chunk_results[1].formatted_text # req[r].chunk_results[2].formatted_text

(* C28 as stated: when the merge raises and the first chunk's result is
   returned in its place, the step that ends the request leaves the cache
   as it was. *)
OriginalC28 ==
    [][\A r \in Slots :
          (/\ pc[r] = "llm"
           /\ pc'[r] = "done"
           /\ req[r].mode = "chunked"
           /\ merge_raises
           /\ req'[r].chunk_results # <<>>) =>
              (cache' = cache /\ access_times' = access_times)]_vars

----------------------------------------------------------------------------
(* Claims about the currency pair merge, checked under SpecPairs *)

\* the places <<chunk, position>> of the entries that name a pair
EntriesNaming(chunk_results, name) ==
    {ci \in UNION {{<<c, i>> : i \in 1..Len(chunk_results[c].currencyPairRankings)} :
                      c \in 1..Len(chunk_results)} :
        chunk_results[ci[1]].currencyPairRankings[ci[2]].pair = name}

(* C23: the merged rankings hold each pair name at most once, and every
   name of the chunk results when there are at most 8 of them; an entry's
   rank is the greatest rank the chunk entries give that pair and its
   mentions the number of chunk entries naming it; the list is in
   descending order of rank, then of mentions, and has at most 8 entries. *)
TheoremC23 ==
    \A r \in Slots :
        (pc[r] = "merged" /\ req[r].entry = "pairs") =>
            LET cr == req[r].chunk_results
                m == out[r]
                names == {n \in {PairNames[i] : i \in 1..Len(PairNames)} :
                             EntriesNaming(cr, n) # {}}
            IN /\ Len(m) <= 8
               /\ Len(m) = Min(8, Cardinality(names))
               /\ \A i, j \in 1..Len(m) :
                      i < j => /\ m[i].pair # m[j].pair
                               /\ \/ m[i].rank > m[j].rank
                                  \/ m[i].rank = m[j].rank /\ m[i].mentions >= m[j].mentions
               /\ \A i \in 1..Len(m) :
                      LET e == EntriesNaming(cr, m[i].pair)
                      IN /\ e # {}
                         /\ m[i].mentions = Cardinality(e)
                         /\ \A ci \in e : cr[ci[1]].currencyPairRankings[ci[2]].rank <= m[i].rank
                         /\ \E ci \in e : cr[ci[1]].currencyPairRankings[ci[2]].rank = m[i].rank

\* two chunks naming nine pairs between them: eight are kept, one pair is
\* counted twice with a rank above its latest entry's, another once
WitnessC23 ==
    \E r \in Slots :
        /\ pc[r] = "merged"
        /\ req[r].entry = "pairs"
        /\ Len(req[r].chunk_results) = 2
        /\ Len(out[r]) = 8
        /\ \E i \in 1..8 :
              /\ out[r][i].mentions = 2
              /\ \E p \in 1..Len(req[r].chunk_results[2].currencyPairRankings) :
                    LET last_entry == req[r].chunk_results[2].currencyPairRankings[p]
                    IN last_entry.pair = out[r][i].pair /\ last_entry.rank < out[r][i].rank
        /\ \E i \in 1..8 : out[r][i].mentions = 1

----------------------------------------------------------------------------
(* Claims about cancellation, checked under SpecCancel *)

(* C24: when the call is cancelled while the LLM call of a chunk is in
   flight it ends there with no result: what its awaiter gets is the
   cancellation, not a merge of the chunks done so far, a chunk's result
   or the canned result; the step starts no LLM call and leaves the cache
   and its counters as they were, and nothing of the call runs
   afterwards. *)
TheoremC24 ==
    [][\A r \in Slots :
          /\ (pc[r] = "llm" /\ req[r].mode = "chunked" /\ last'.op = "cancel") =>
                /\ pc'[r] = "cancelled"
                /\ out'[r] = Cancelled
                /\ llm_calls'[r] = llm_calls[r]
                /\ CM' = CM
          /\ pc[r] = "cancelled" =>
                /\ pc'[r] = "cancelled"
                /\ out'[r] = Cancelled
                /\ llm_calls'[r] = llm_calls[r]
                /\ CM' = CM]_vars

\* cancelled in the second of three chunks, the first one done: two LLM
\* calls were started, the cache is empty
WitnessC24 ==
    \E r \in Slots :
        /\ pc[r] = "cancelled"
        /\ req[r].mode = "chunked"
        /\ req[r].use_cache
        /\ Len(req[r].chunks) = 3
        /\ Len(req[r].chunk_results) = 1
        /\ llm_calls[r] = 2
        /\ out[r] = Cancelled
        /\ cache = <<>>

----------------------------------------------------------------------------
(* Claims about the number of LLM invocations, checked under SpecCall *)

(* C25: no pass invokes the LLM twice.  A call on the base class or a
   single pass has made at most one invocation; in a chunked generation
   the invocations made are one for each chunk started.  When the
   invocation of a pass fails, the step makes no invocation for that pass
   again: the base class ends with the error raised to its caller, a
   single pass ends, and a chunked generation goes on to the next chunk or
   ends. *)
TheoremC25 ==
    [][\A r \in Slots :
          /\ pc'[r] # "idle" =>
                /\ req'[r].mode \in {"langchain", "single"} => llm_calls'[r] <= 1
                /\ req'[r].mode = "chunked" =>
                      /\ llm_calls'[r] <= Len(req'[r].chunks)
                      /\ pc'[r] = "llm" => llm_calls'[r] = ChunkIdx(req'[r])
          /\ (pc[r] = "llm" /\ last'.op = "llm_raises") =>
                /\ req[r].mode = "langchain" =>
                      (pc'[r] = "done" /\ out'[r] = Raised /\ llm_calls'[r] = llm_calls[r])
                /\ req[r].mode = "single" =>
                      (pc'[r] = "done" /\ llm_calls'[r] = llm_calls[r])
                /\ req[r].mode = "chunked" =>
                      /\ ChunkIdx(req'[r]) = ChunkIdx(req[r]) + 1
                      /\ llm_calls'[r] = llm_calls[r] + (IF pc'[r] = "llm" THEN 1 ELSE 0)]_vars

\* the one invocation of a call on the base class failed: the error is
\* raised and no second invocation was made
WitnessC25 ==
    \E r \in Slots :
        /\ pc[r] = "done"
        /\ req[r].mode = "langchain"
        /\ last.op = "llm_raises"
        /\ out[r] = Raised
        /\ llm_calls[r] = 1

----------------------------------------------------------------------------
(* Claims about the prompt builder, checked under SpecPrompt *)

Formatted(r) == pc[r] = "formatted"

\* C26: for every selected count >= 1 and every MAX_ARTICLE_CONTENT_CHARS
\* >= 0 the budget is max(800, floor(max_content_chars * 10 / count)), it is
\* never below 800, and the content emitted for an article is at most the
\* budget in length.
OriginalC26 ==
    \A r \in Slots :
        Formatted(r) =>
            /\ out[r].dynamic_content_size =
                   Max(800, (req[r].max_content_chars * 10) \div out[r].selected)
            /\ out[r].dynamic_content_size >= 800
            /\ out[r].emitted <= out[r].dynamic_content_size

----------------------------------------------------------------------------
(* Claims about failed calls, checked under SpecConc *)

\* this step is a failure of the LLM call of caller r, whose
\* generate_summary call has no parsed completion so far
FailsUnparsed(r) ==
    /\ pc[r] = "llm"
    /\ last'.op = "llm_raises"
    /\ req'[r] # req[r] \/ pc'[r] # pc[r]
    /\ req'[r].chunk_results = <<>>

\* C27: a step in which the LLM call of a generate_summary call fails,
\* while the call has no parsed completion (the single pass, or every chunk
\* so far), leaves the stored entries, their values and expiries and their
\* last-access markers as they were; so a call that ends without any
\* parsed completion has added and overwritten nothing since its lookup.
TheoremC27 ==
    [][\A r \in DOMAIN pc :
          FailsUnparsed(r) =>
              /\ cache' = cache
              /\ access_times' = access_times
              /\ access_order' = access_order]_vars

\* a call that used the cache has ended without any parsed completion,
\* while another caller's result is stored under its key
WitnessC27 ==
    \E r \in DOMAIN pc :
        /\ pc[r] = "done"
        /\ last.op = "llm_raises"
        /\ req[r].use_cache
        /\ req[r].mode \in {"langchain", "chunked"}
        /\ req[r].chunk_results = <<>>
        /\ out[r] \in {Raised, EmptySummaryResult}
        /\ req[r].cache_key \in DOMAIN cache

----------------------------------------------------------------------------
(* Claims about the cache statistics, checked under SpecCache *)

\* C29: hits and misses start at zero; every get adds one to exactly one of
\* them, to hits exactly when it returns the stored value; set (with or
\* without an eviction), delete and clear change neither, and clear does
\* not reset them; so hits + misses counts the gets and hits the gets that
\* returned a value.  The reported size is the number of stored entries,
\* and the keys with a last-access marker are the stored keys.
TheoremC29 ==
    [][/\ last.op = "init" => (hits = 0 /\ misses = 0)
       /\ last'.op \in GetTags =>
            LET g == CacheGet(CM, last'.key, now)
            IN /\ hits' + misses' = hits + misses + 1
               /\ hits' = hits + 1 <=> g.ret # None
               /\ g.ret # None => (last'.key \in Keys /\ g.ret = cache[last'.key].value)
               /\ hits' >= hits /\ misses' >= misses
       /\ last'.op \notin GetTags => (hits' = hits /\ misses' = misses)
       /\ StatsSize(CM)' = Cardinality(DOMAIN cache')
       /\ DOMAIN access_times' = DOMAIN cache'
       /\ {access_order'[i] : i \in DOMAIN access_order'} = DOMAIN cache'
     ]_vars

\* a clear of a cache that has counted a hit and a miss, and a set that has
\* evicted an entry after a hit and a miss
WitnessC29 ==
    /\ last.op \in {"clear", "set_full"}
    /\ hits >= 1
    /\ misses >= 1

----------------------------------------------------------------------------
(* Claims about the sentiment of results, checked under SpecResults *)

\* the category the thresholds give the score num / den
ThresholdCategory(num, den) ==
    IF num >= 70 * den THEN "bullish"
    ELSE IF num <= 30 * den THEN "bearish"
    ELSE "neutral"

\* C30: in every result, whether it comes from the parser, from the
\* parser's fallback, from the completion of the parsed result, from the
\* empty-state return or from the chunk merge, sentiment.overall is the
\* category that the thresholds give sentiment.score: bullish iff the score
\* is >= 70, bearish iff it is <= 30, neutral otherwise.
TheoremC30 ==
    \A r \in Slots :
        /\ pc[r] \in {"parsed", "done", "empty"} =>
              out[r].sentiment.overall = ThresholdCategory(out[r].sentiment.score, 1)
        /\ pc[r] = "merged" =>
              out[r].sentiment.overall =
                  ThresholdCategory(out[r].sentiment.score.num, out[r].sentiment.score.den)

\* a completed result whose sentiment comes from a sentiment word of the
\* summary, no pair being ranked or named
WitnessC30 ==
    \E r \in Slots :
        /\ pc[r] = "done"
        /\ req[r].text.pairs = <<>>
        /\ ~req[r].text.raises
        /\ out[r].sentiment = [overall |-> "bearish", score |-> 25]

====
